---- MODULE Spec2Model ----
(***************************************************************************)
(* Content intelligence subsystem of contextor: the IntelligenceAnalyzer   *)
(* orchestrator (intelligence/analyzer.py) over a directory of .mdc files, *)
(* its state file and its intelligence index, and the CrossLinker          *)
(* (intelligence/cross_linking.py).                                        *)
(***************************************************************************)
EXTENDS Integers, Sequences, FiniteSets, TLC

\* ------------------------------------------------------------------ bounds
\* Number of .mdc paths under source_dir, of distinct document bodies and of
\* distinct slugs the upstream emitter may write.
NumPaths == 2
NumContents == 2
NumSlugs == 2
\* Number of analyze() calls and of changes to the documents in one behaviour.
MaxRuns == 3
MaxEdits == 1
\* Number of documents in a collection handed to the cross-linker.
MaxLinkDocs == 3

Paths == 1..NumPaths
Contents == 1..NumContents
Slugs == 1..NumSlugs

\* ------------------------------------------------------------- dict helpers
\* dict.get(k, d)
Get(f, k, d) == IF k \in DOMAIN f THEN f[k] ELSE d

\* {} : the empty dict
EmptyDict == <<>>

\* x = e; F(x): the value of e is computed once and bound to F's parameter
Bind(e, F(_)) == CHOOSE r \in {F(x) : x \in {e}} : TRUE

\* None, as returned by dict.get(k) for a missing key
None == <<"None">>

\* ------------------------------------------------------------ feature flags
KnownFeatures ==
    {"topic-extraction", "cross-linking", "quality-scoring", "duplicate-detection"}

\* analyze(features=None): the default set, analyzer.py 63-69
DefaultFeatures ==
    {"topic-extraction", "cross-linking", "quality-scoring", "duplicate-detection"}

\* The features argument: any set of known tokens, a set holding a token the
\* analyzer does not know, or None.
NoFeaturesArg == {"<None>"}
FeatureArgs ==
    (SUBSET KnownFeatures)
        \cup {{"spell-check"}, KnownFeatures \cup {"spell-check"}, NoFeaturesArg}

\* ------------------------------------------------------------------- state
VARIABLES
    files,               \* source_dir: path -> the .mdc file at that path
    state_file,          \* .intelligence-state.json
    intelligence_index,  \* intelligence.jsonl
    previous_state,      \* self.previous_state of the live analyzer instance
    result,              \* what the last analyze() call returned
    call,                \* the arguments of the last analyze() call and its faults
    files_to_analyze,    \* files_to_analyze of the last analyze() call
    documents,           \* documents of the last analyze() call, as at return
    log,                 \* error/warning events logged by the last call
    dirty,               \* a document changed since the last analyze() call
    analyzed,            \* paths analyzed successfully by some call so far
    runs,                \* number of analyze() calls so far
    edits,               \* number of changes to the documents so far
    pc,                  \* the statement of analyze() a call in progress is at
    locals,              \* the loop index, counters and start state of that call
    trace,               \* the calls analyze() has made in the current run
    link_config,         \* a stand-alone CrossLinker's configuration
    link_documents,      \* the collection handed to find_related_documents
    link_target,         \* the target of the last find_related_documents call
    link_related,        \* what that call returned
    component,           \* the method called on a stand-alone component, "" before
    arguments,           \* the arguments of that call
    returned             \* what that call returned

avars == <<files, state_file, intelligence_index, previous_state, result, call,
           files_to_analyze, documents, log, dirty, analyzed, runs, edits,
           pc, locals, trace>>
linkvars == <<link_config, link_documents, link_target, link_related>>
unitvars == <<component, arguments, returned>>
vars == <<avars, linkvars, unitvars>>

\* A path with no file, and a file frontmatter.load cannot parse.
AbsentFile == [kind |-> "absent", content |-> 0, metadata |-> EmptyDict]
CorruptFile == [kind |-> "corrupt", content |-> 0, metadata |-> EmptyDict]

\* A front-matter value that is a scalar where a mapping is expected.
NotAMapping == [scalar |-> TRUE]

\* The upstream source path recorded for path p, as a str.
DigitChar == <<"1", "2", "3", "4", "5", "6", "7", "8", "9">>
SourcePathOf(p) == <<"d", "/", DigitChar[p]>>

\* A file as the upstream emitter writes it: a body, and front matter with a
\* slug and a `source` key, which is a mapping or (malformed) a scalar.
EmittedFile(p, c, s, source_ok) ==
    [kind |-> "doc",
     content |-> c,
     metadata |->
         [slug |-> s,
          source |-> IF source_ok THEN [path |-> SourcePathOf(p)] ELSE NotAMapping]]

\* utils.content_hash: SHA-256 hex digest of the body
content_hash(c) == <<"sha256", c>>

\* datetime.utcnow().isoformat() + "Z"
UtcNow == <<"utcnow">>

\* source_dir.rglob("*.mdc"), as a list
RECURSIVE PathList(_)
PathList(S) ==
    IF S = {} THEN <<>>
    ELSE LET m == CHOOSE x \in S : \A y \in S : x <= y
         IN <<m>> \o PathList(S \ {m})

Discover(fs) == PathList({p \in Paths : fs[p].kind # "absent"})

\* ===================================================================
\* CrossLinker (intelligence/cross_linking.py)
\* ===================================================================
\* A str is a sequence of one-character strings; "" is the empty sequence.
\* A score is an exact fraction [num, den] with den > 0.  (The code computes
\* in binary floating point; sums here are the exact real values.)
EmptyStr == <<>>

RECURSIVE Gcd(_, _)
Gcd(a, b) == IF b = 0 THEN a ELSE Gcd(b, a % b)

\* n/d in lowest terms (n >= 0, d > 0)
Frac(n, d) == LET g == Gcd(n, d) IN [num |-> n \div g, den |-> d \div g]
FracAdd(a, b) == Frac(a.num * b.den + b.num * a.den, a.den * b.den)
FracGeq(a, b) == a.num * b.den >= b.num * a.den
FracGt(a, b) == a.num * b.den > b.num * a.den
FracMin(a, b) == IF FracGeq(a, b) THEN b ELSE a
FracMax(a, b) == IF FracGeq(a, b) THEN a ELSE b

\* a fraction times a weight given in thousandths
Weighted(f, milli) == Frac(f.num * milli, f.den * 1000)

\* round(x, 3), in thousandths: the nearest thousandth, a tie to the even one
Round3(f) ==
    LET n == f.num * 1000
        q == n \div f.den
        r == n % f.den
    IN IF 2 * r > f.den THEN q + 1
       ELSE IF 2 * r < f.den THEN q
       ELSE IF q % 2 = 0 THEN q ELSE q + 1

\* set(list)
SetOf(seq) == {seq[i] : i \in DOMAIN seq}

\* s.replace("\\", "/")
ReplaceBackslash(s) == [i \in DOMAIN s |-> IF s[i] = "\\" THEN "/" ELSE s[i]]

\* s.split(sep): the pieces between separators ("" splits to [""])
RECURSIVE Split(_, _)
Split(s, sep) ==
    IF \A i \in DOMAIN s : s[i] # sep THEN <<s>>
    ELSE LET k == CHOOSE i \in DOMAIN s :
                      s[i] = sep /\ \A j \in 1..(i - 1) : s[j] # sep
         IN <<SubSeq(s, 1, k - 1)>> \o Split(SubSeq(s, k + 1, Len(s)), sep)

\* s.rsplit(sep, 1)[0]: s up to its last separator, s itself when it has none
RSplitHead(s, sep) ==
    IF \A i \in DOMAIN s : s[i] # sep THEN s
    ELSE LET k == CHOOSE i \in DOMAIN s :
                      s[i] = sep /\ \A j \in (i + 1)..Len(s) : s[j] # sep
         IN SubSeq(s, 1, k - 1)

\* s.startswith(prefix)
StartsWith(s, prefix) ==
    Len(prefix) <= Len(s) /\ SubSeq(s, 1, Len(prefix)) = prefix

\* CrossLinker.__init__ defaults: thresholds in ten-thousandths
DefaultMaxRelated == 5
DefaultRelevanceThreshold == 4000
DefaultLinkConfig ==
    [max_related_documents |-> DefaultMaxRelated,
     relevance_threshold |-> DefaultRelevanceThreshold]

\* the weights of _calculate_relevance, in thousandths
TopicWeight == 400
PathWeight == 200
FingerprintWeight == 250
QualityWeight == 150

\* doc.get("metadata", {}).get("source", {}).get("path", "")
SourcePath(doc) ==
    Get(Get(Get(doc, "metadata", EmptyDict), "source", EmptyDict), "path", EmptyStr)

\* that lookup raises AttributeError when `source` is not a mapping
SourcePathRaises(doc) ==
    "scalar" \in DOMAIN Get(Get(doc, "metadata", EmptyDict), "source", EmptyDict)

\* extracted topics | declared topics of a document
AllTopics(doc) ==
    SetOf(Get(Get(doc, "intelligence", EmptyDict), "extracted_topics", <<>>))
        \cup SetOf(Get(Get(doc, "metadata", EmptyDict), "topics", <<>>))

\* the length of the common prefix of two lists
RECURSIVE CommonPrefix(_, _)
CommonPrefix(a, b) ==
    IF a = <<>> \/ b = <<>> THEN 0
    ELSE IF Head(a) = Head(b) THEN 1 + CommonPrefix(Tail(a), Tail(b))
    ELSE 0

Max2(a, b) == IF a >= b THEN a ELSE b

_calculate_path_similarity(doc1, doc2) ==
    LET path1 == SourcePath(doc1)
        path2 == SourcePath(doc2)
    IN IF path1 = EmptyStr \/ path2 = EmptyStr THEN Frac(0, 1)
       ELSE LET parts1 == Split(ReplaceBackslash(path1), "/")
                parts2 == Split(ReplaceBackslash(path2), "/")
                max_depth == Max2(Len(parts1), Len(parts2))
            IN IF max_depth = 0 THEN Frac(0, 1)
               ELSE Frac(CommonPrefix(parts1, parts2), max_depth)

_calculate_fingerprint_similarity(doc1, doc2) ==
    LET fingerprint1 ==
            Get(Get(doc1, "intelligence", EmptyDict), "content_fingerprint", EmptyStr)
        fingerprint2 ==
            Get(Get(doc2, "intelligence", EmptyDict), "content_fingerprint", EmptyStr)
    IN IF fingerprint1 = EmptyStr \/ fingerprint2 = EmptyStr THEN Frac(0, 1)
       ELSE IF fingerprint1 = fingerprint2 THEN Frac(1, 1)
       ELSE LET both == (DOMAIN fingerprint1) \cap (DOMAIN fingerprint2)
                matches == Cardinality({i \in both : fingerprint1[i] = fingerprint2[i]})
                max_length == Max2(Len(fingerprint1), Len(fingerprint2))
            IN IF max_length > 0 THEN Frac(matches, max_length) ELSE Frac(0, 1)

\* quality scores are hundredths (QualityScorer rounds to 2 decimals)
_calculate_quality_compatibility(doc1, doc2) ==
    LET quality1 == Get(Get(doc1, "intelligence", EmptyDict), "quality_metrics", EmptyDict)
        quality2 == Get(Get(doc2, "intelligence", EmptyDict), "quality_metrics", EmptyDict)
    IN IF DOMAIN quality1 = {} \/ DOMAIN quality2 = {} THEN Frac(1, 2)
       ELSE LET overall1 == Get(quality1, "overall", 50)
                overall2 == Get(quality2, "overall", 50)
                quality_diff ==
                    IF overall1 >= overall2 THEN overall1 - overall2
                    ELSE overall2 - overall1
            IN FracMax(Frac(0, 1), Frac(100 - quality_diff, 100))

_calculate_relevance(doc1, doc2, target_topics) ==
    LET all_doc2_topics == AllTopics(doc2)
        topic_score ==
            IF target_topics # {} /\ all_doc2_topics # {}
            THEN Weighted(Frac(Cardinality(target_topics \cap all_doc2_topics),
                               Cardinality(target_topics \cup all_doc2_topics)),
                          TopicWeight)
            ELSE Frac(0, 1)
        score ==
            FracAdd(FracAdd(topic_score,
                            Weighted(_calculate_path_similarity(doc1, doc2), PathWeight)),
                    FracAdd(Weighted(_calculate_fingerprint_similarity(doc1, doc2),
                                     FingerprintWeight),
                            Weighted(_calculate_quality_compatibility(doc1, doc2),
                                     QualityWeight)))
    IN FracMin(score, Frac(1, 1))

\* A classification that looks at the topic overlap before the paths.
_determine_relationship_type_topics_first(doc1, doc2, relevance) ==
    LET path1 == SourcePath(doc1)
        path2 == SourcePath(doc2)
        doc1_topics ==
            SetOf(Get(Get(doc1, "intelligence", EmptyDict), "extracted_topics", <<>>))
        doc2_topics ==
            SetOf(Get(Get(doc2, "intelligence", EmptyDict), "extracted_topics", <<>>))
    IN IF doc1_topics # {} /\ doc2_topics # {}
          /\ FracGt(Frac(Cardinality(doc1_topics \cap doc2_topics),
                         Cardinality(doc1_topics \cup doc2_topics)),
                    Frac(6, 10))
       THEN "related-content"
       ELSE IF path1 # EmptyStr /\ path2 # EmptyStr
               /\ StartsWith(path2, RSplitHead(path1, "/"))
       THEN "sibling"
       ELSE IF path1 # EmptyStr /\ path2 # EmptyStr
               /\ StartsWith(path1, RSplitHead(path2, "/"))
       THEN "parent-child"
       ELSE IF doc1_topics \cap {"implementation", "example", "tutorial"} # {}
               /\ doc2_topics \cap {"concept", "overview", "introduction"} # {}
       THEN "implementation-detail"
       ELSE IF FracGt(relevance, Frac(8, 10)) THEN "highly-related"
       ELSE IF FracGt(relevance, Frac(6, 10)) THEN "related"
       ELSE "tangentially-related"

_determine_relationship_type(doc1, doc2, relevance) ==
    LET path1 == SourcePath(doc1)
        path2 == SourcePath(doc2)
        doc1_topics ==
            SetOf(Get(Get(doc1, "intelligence", EmptyDict), "extracted_topics", <<>>))
        doc2_topics ==
            SetOf(Get(Get(doc2, "intelligence", EmptyDict), "extracted_topics", <<>>))
    IN IF path1 # EmptyStr /\ path2 # EmptyStr
          /\ StartsWith(path2, RSplitHead(path1, "/"))
       THEN "sibling"
       ELSE IF path1 # EmptyStr /\ path2 # EmptyStr
               /\ StartsWith(path1, RSplitHead(path2, "/"))
       THEN "parent-child"
       ELSE IF doc1_topics # {} /\ doc2_topics # {}
               /\ FracGt(Frac(Cardinality(doc1_topics \cap doc2_topics),
                              Cardinality(doc1_topics \cup doc2_topics)),
                         Frac(6, 10))
       THEN "related-content"
       ELSE IF doc1_topics \cap {"implementation", "example", "tutorial"} # {}
               /\ doc2_topics \cap {"concept", "overview", "introduction"} # {}
       THEN "implementation-detail"
       ELSE IF FracGt(relevance, Frac(8, 10)) THEN "highly-related"
       ELSE IF FracGt(relevance, Frac(6, 10)) THEN "related"
       ELSE "tangentially-related"

\* list.sort(key=relevance, reverse=True): stable, descending
RECURSIVE InsertByRelevance(_, _)
InsertByRelevance(sorted, e) ==
    IF sorted = <<>> THEN <<e>>
    ELSE IF Head(sorted).relevance >= e.relevance
    THEN <<Head(sorted)>> \o InsertByRelevance(Tail(sorted), e)
    ELSE <<e>> \o sorted

RECURSIVE SortByRelevance(_)
SortByRelevance(seq) ==
    IF seq = <<>> THEN <<>>
    ELSE InsertByRelevance(SortByRelevance(SubSeq(seq, 1, Len(seq) - 1)),
                           seq[Len(seq)])

\* A loop body that does not skip the target itself.
RelatedEntryNoSkip(cfg, target_doc, doc, all_target_topics) ==
    LET relevance_score == _calculate_relevance(target_doc, doc, all_target_topics)
    IN IF FracGeq(relevance_score, Frac(cfg.relevance_threshold, 10000))
       THEN << [slug |-> doc.slug,
                title |-> doc.title,
                relevance |-> Round3(relevance_score),
                relationship |->
                    _determine_relationship_type(target_doc, doc, relevance_score)] >>
       ELSE <<>>

\* the loop body of find_related_documents for one candidate: the entries it
\* appends to `related`
RelatedEntry(cfg, target_doc, doc, all_target_topics) ==
    IF doc.slug = target_doc.slug THEN <<>>
    ELSE LET relevance_score == _calculate_relevance(target_doc, doc, all_target_topics)
         IN IF FracGeq(relevance_score, Frac(cfg.relevance_threshold, 10000))
            THEN << [slug |-> doc.slug,
                     title |-> doc.title,
                     relevance |-> Round3(relevance_score),
                     relationship |->
                         _determine_relationship_type(target_doc, doc, relevance_score)] >>
            ELSE <<>>

RECURSIVE RelatedUnsorted(_, _, _, _)
RelatedUnsorted(cfg, target_doc, docs, all_target_topics) ==
    IF docs = <<>> THEN <<>>
    ELSE RelatedEntry(cfg, target_doc, Head(docs), all_target_topics)
             \o RelatedUnsorted(cfg, target_doc, Tail(docs), all_target_topics)

\* A result that is not cut to max_related_documents.
TakeAll(seq, n) == seq

\* related[:n]
Take(seq, n) == SubSeq(seq, 1, IF n < Len(seq) THEN n ELSE Len(seq))

find_related_documents(cfg, target_doc, all_documents) ==
    Bind(AllTopics(target_doc), LAMBDA all_target_topics :
        Bind(RelatedUnsorted(cfg, target_doc, all_documents, all_target_topics),
             LAMBDA related :
                 Bind(SortByRelevance(related), LAMBDA sorted :
                     Take(sorted, cfg.max_related_documents))))

\* find_related_documents raises when a relevance it computes reads a
\* `source` that is not a mapping (_calculate_path_similarity, 181-182)
FindRelatedRaises(target_doc, all_documents) ==
    \E i \in DOMAIN all_documents :
        /\ all_documents[i].slug # target_doc.slug
        /\ SourcePathRaises(target_doc) \/ SourcePathRaises(all_documents[i])

\* ===================================================================
\* IntelligenceAnalyzer (intelligence/analyzer.py)
\* ===================================================================
\* A document body c is characterised by what the per-document analyzers
\* compute from it: its ranked topics, its quality metrics (hundredths) and
\* its 16-character fingerprint.
BodyTopics(c) ==
    IF c = 1 THEN <<"react", "hooks">>
    ELSE IF c = 2 THEN <<"react", "state">>
    ELSE <<"python">>

BodyQuality(c) ==
    [completeness |-> 50, freshness |-> 50, clarity |-> 20 + 10 * c,
     overall |-> 41 + 3 * c]

BodyFingerprint(c) == [i \in 1..16 |-> IF i = 1 THEN "f" ELSE DigitChar[c]]

\* frontmatter.load(f) raises on a file it cannot parse
LoadRaises(fs, p) == fs[p].kind # "doc"

\* A filter that drops a file whose hash cannot be computed.
FilterKeepsSkipsUnreadable(fs, prev, p) ==
    ~LoadRaises(fs, p)
        /\ content_hash(fs[p].content)
               # Get(Get(prev, p, EmptyDict), "content_hash", None)

\* the loop body of _filter_files_for_analysis: is mdc_path appended?
FilterKeeps(fs, prev, p) ==
    IF LoadRaises(fs, p) THEN TRUE
    ELSE LET current_hash == content_hash(fs[p].content)
             previous_hash == Get(Get(prev, p, EmptyDict), "content_hash", None)
         IN current_hash # previous_hash

RECURSIVE FilterLoop(_, _, _)
FilterLoop(fs, prev, mdc_files) ==
    IF mdc_files = <<>> THEN <<>>
    ELSE (IF FilterKeeps(fs, prev, Head(mdc_files)) THEN <<Head(mdc_files)>> ELSE <<>>)
             \o FilterLoop(fs, prev, Tail(mdc_files))

_filter_files_for_analysis(fs, prev, mdc_files, incremental) ==
    IF ~incremental THEN mdc_files ELSE FilterLoop(fs, prev, mdc_files)

\* TopicExtractor.extract_topics raises when metadata.source is not a mapping
\* (topic_extraction.py 149-151)
ExtractTopicsRaises(metadata) ==
    "scalar" \in DOMAIN Get(metadata, "source", EmptyDict)

\* A record that zeroes the fields of disabled features instead of leaving
\* them out.
DocumentIntelligenceZeroed(content, features) ==
    [extracted_topics |->
         IF "topic-extraction" \in features THEN BodyTopics(content) ELSE <<>>,
     quality_metrics |->
         IF "quality-scoring" \in features THEN BodyQuality(content) ELSE EmptyDict,
     content_fingerprint |->
         IF "cross-linking" \in features \/ "duplicate-detection" \in features
         THEN BodyFingerprint(content) ELSE EmptyStr,
     last_analyzed |-> UtcNow]

\* the intelligence dict _analyze_document builds
DocumentIntelligence(content, features) ==
    (IF "topic-extraction" \in features
     THEN "extracted_topics" :> BodyTopics(content) ELSE EmptyDict)
    @@ (IF "quality-scoring" \in features
        THEN "quality_metrics" :> BodyQuality(content) ELSE EmptyDict)
    @@ (IF "cross-linking" \in features \/ "duplicate-detection" \in features
        THEN "content_fingerprint" :> BodyFingerprint(content) ELSE EmptyDict)
    @@ ("last_analyzed" :> UtcNow)

\* _analyze_document: [ok, doc]; ok = FALSE is the None it returns from its
\* except branch
_analyze_document(fs, p, features) ==
    IF LoadRaises(fs, p)
       \/ ("topic-extraction" \in features /\ ExtractTopicsRaises(fs[p].metadata))
    THEN [ok |-> FALSE, doc |-> EmptyDict]
    ELSE [ok |-> TRUE,
          doc |-> [path |-> p,
                   slug |-> Get(fs[p].metadata, "slug", 0),
                   title |-> Get(fs[p].metadata, "title", EmptyStr),
                   content |-> fs[p].content,
                   metadata |-> fs[p].metadata,
                   intelligence |-> DocumentIntelligence(fs[p].content, features)]]

\* A Phase 1 that counts a document whose analysis failed neither as skipped
\* nor as an error.
RECURSIVE Phase1Uncounted(_, _, _)
Phase1Uncounted(fs, todo, features) ==
    IF todo = <<>>
    THEN [documents |-> <<>>, processed |-> 0, skipped |-> 0]
    ELSE LET doc_data == _analyze_document(fs, todo[Len(todo)], features)
             before == Phase1Uncounted(fs, SubSeq(todo, 1, Len(todo) - 1), features)
         IN IF doc_data.ok
            THEN [documents |-> Append(before.documents, doc_data.doc),
                  processed |-> before.processed + 1,
                  skipped |-> before.skipped]
            ELSE before

\* Phase 1 of analyze (105-118): documents and the counters
RECURSIVE Phase1(_, _, _)
Phase1(fs, todo, features) ==
    IF todo = <<>>
    THEN [documents |-> <<>>, processed |-> 0, skipped |-> 0]
    ELSE LET doc_data == _analyze_document(fs, todo[Len(todo)], features)
             before == Phase1(fs, SubSeq(todo, 1, Len(todo) - 1), features)
         IN IF doc_data.ok
            THEN [documents |-> Append(before.documents, doc_data.doc),
                  processed |-> before.processed + 1,
                  skipped |-> before.skipped]
            ELSE [before EXCEPT !.skipped = @ + 1]

\* ===================================================================
\* str and re operations used by the analyzers
\* ===================================================================
\* string.ascii_lowercase, string.ascii_uppercase
AsciiLowercase ==
    <<
        "a", "b", "c", "d", "e", "f", "g", "h", "i", "j", "k", "l", "m",
        "n", "o", "p", "q", "r", "s", "t", "u", "v", "w", "x", "y", "z"
    >>
AsciiUppercase ==
    <<
        "A", "B", "C", "D", "E", "F", "G", "H", "I", "J", "K", "L", "M",
        "N", "O", "P", "Q", "R", "S", "T", "U", "V", "W", "X", "Y", "Z"
    >>

AsciiLetters == SetOf(AsciiLowercase) \cup SetOf(AsciiUppercase)
DecimalDigits == {"0", "1", "2", "3", "4", "5", "6", "7", "8", "9"}

\* the character classes \s and \w of re
Whitespace == {" ", "\n", "\t", "\r"}
WordChars == AsciiLetters \cup DecimalDigits \cup {"_"}

\* str.lower() on one character and on a str
LowerChar(ch) ==
    IF ch \in SetOf(AsciiUppercase)
    THEN AsciiLowercase[CHOOSE i \in 1..26 : AsciiUppercase[i] = ch]
    ELSE ch

RECURSIVE Lower(_)
Lower(s) == IF s = <<>> THEN <<>> ELSE <<LowerChar(Head(s))>> \o Lower(Tail(s))

\* s[i:].startswith(lit)
StartsAt(s, lit, i) ==
    /\ i + Len(lit) - 1 <= Len(s)
    /\ SubSeq(s, i, i + Len(lit) - 1) = lit

\* The searches through a str look at the left half of a range and then at
\* the right half, which keeps the recursion shallow on a long document.
\* the first index in lo..hi at which lit occurs in s, or 0 if there is none
RECURSIVE FindIn(_, _, _, _)
FindIn(s, lit, lo, hi) ==
    IF lo > hi THEN 0
    ELSE IF lo = hi THEN (IF StartsAt(s, lit, lo) THEN lo ELSE 0)
    ELSE Bind(FindIn(s, lit, lo, (lo + hi) \div 2), LAMBDA left :
              IF left > 0 THEN left ELSE FindIn(s, lit, (lo + hi) \div 2 + 1, hi))

\* the first index j >= i at which lit occurs in s, or 0 if there is none
Find(s, lit, i) == FindIn(s, lit, i, Len(s) + 1 - Len(lit))

\* the first index in lo..hi whose character is in class (member = TRUE) or
\* is not in class (member = FALSE), or 0 if there is none
RECURSIVE FirstWhere(_, _, _, _, _)
FirstWhere(s, class, member, lo, hi) ==
    IF lo > hi THEN 0
    ELSE IF lo = hi THEN (IF (s[lo] \in class) = member THEN lo ELSE 0)
    ELSE Bind(FirstWhere(s, class, member, lo, (lo + hi) \div 2), LAMBDA left :
              IF left > 0 THEN left
              ELSE FirstWhere(s, class, member, (lo + hi) \div 2 + 1, hi))

\* the first index j >= i whose character is not in class, or Len(s) + 1
SkipClass(s, class, i) ==
    Bind(FirstWhere(s, class, FALSE, i, Len(s)), LAMBDA j :
         IF j > 0 THEN j ELSE IF i > Len(s) THEN i ELSE Len(s) + 1)

\* str.strip()
RECURSIVE RStrip(_)
RStrip(s) ==
    IF s # <<>> /\ s[Len(s)] \in Whitespace THEN RStrip(SubSeq(s, 1, Len(s) - 1)) ELSE s

Strip(s) == SubSeq(RStrip(s), SkipClass(s, Whitespace, 1), Len(RStrip(s)))

\* re.sub(r"\s+", " ", s)
RECURSIVE CollapseWhitespace(_, _)
CollapseWhitespace(s, i) ==
    IF i > Len(s) THEN <<>>
    ELSE IF s[i] \in Whitespace
    THEN <<" ">> \o CollapseWhitespace(s, SkipClass(s, Whitespace, i))
    ELSE <<s[i]>> \o CollapseWhitespace(s, i + 1)

\* re.sub(r"```[\s\S]*?```", " ", s): from a fence to the nearest closing one
\* The grave accent that delimits code, as one character.
Backtick == "<grave>"

Fence == <<Backtick, Backtick, Backtick>>

RECURSIVE SubCodeBlocks(_, _)
SubCodeBlocks(s, i) ==
    IF i > Len(s) THEN <<>>
    ELSE LET close == IF StartsAt(s, Fence, i) THEN Find(s, Fence, i + 3) ELSE 0
         IN IF close > 0
            THEN <<" ">> \o SubCodeBlocks(s, close + 3)
            ELSE <<s[i]>> \o SubCodeBlocks(s, i + 1)

\* the end of a match of  open [^close]+ close  that starts at i, or 0
Delimited(s, open, close, i) ==
    IF i <= Len(s) /\ s[i] = open
    THEN LET j == Find(s, <<close>>, i + 1)
         IN IF j >= i + 2 THEN j ELSE 0
    ELSE 0

\* re.sub(r"`[^`]+`", " ", s)
RECURSIVE SubInlineCode(_, _)
SubInlineCode(s, i) ==
    IF i > Len(s) THEN <<>>
    ELSE LET close == Delimited(s, Backtick, Backtick, i)
         IN IF close > 0
            THEN <<" ">> \o SubInlineCode(s, close + 1)
            ELSE <<s[i]>> \o SubInlineCode(s, i + 1)

\* a match of r"\[([^\]]+)\]\([^\)]+\)" that starts at i: [text, end], end = 0
\* if there is none
LinkAt(s, i) ==
    LET j == Delimited(s, "[", "]", i)
        k == IF j > 0 THEN Delimited(s, "(", ")", j + 1) ELSE 0
    IN [text |-> IF k > 0 THEN SubSeq(s, i + 1, j - 1) ELSE <<>>, end |-> k]

\* re.sub(r"\[([^\]]+)\]\([^\)]+\)", r"\1", s)
RECURSIVE SubLinks(_, _)
SubLinks(s, i) ==
    IF i > Len(s) THEN <<>>
    ELSE LET link == LinkAt(s, i)
         IN IF link.end > 0
            THEN link.text \o SubLinks(s, link.end + 1)
            ELSE <<s[i]>> \o SubLinks(s, i + 1)

\* re.sub(r"<[^>]+>", " ", s)
RECURSIVE SubHtmlTags(_, _)
SubHtmlTags(s, i) ==
    IF i > Len(s) THEN <<>>
    ELSE LET close == Delimited(s, "<", ">", i)
         IN IF close > 0
            THEN <<" ">> \o SubHtmlTags(s, close + 1)
            ELSE <<s[i]>> \o SubHtmlTags(s, i + 1)

\* ^ under re.MULTILINE: the start of s or just after a newline
LineStart(s, i) == i = 1 \/ s[i - 1] = "\n"

\* re.sub(r"^#+\s*", "", s, flags=re.MULTILINE)
RECURSIVE SubHeaderMarks(_, _)
SubHeaderMarks(s, i) ==
    IF i > Len(s) THEN <<>>
    ELSE IF LineStart(s, i) /\ s[i] = "#"
    THEN SubHeaderMarks(s, SkipClass(s, Whitespace, SkipClass(s, {"#"}, i)))
    ELSE <<s[i]>> \o SubHeaderMarks(s, i + 1)

\* re.sub(r"[...]", repl, s) for a class of single characters
RECURSIVE SubChars(_, _, _)
SubChars(s, class, repl) ==
    IF s = <<>> THEN <<>>
    ELSE (IF Head(s) \in class THEN repl ELSE <<Head(s)>>) \o SubChars(Tail(s), class, repl)

\* re.findall(r"\b[a-zA-Z]{3,}\b", s): the runs of three or more letters that
\* have a word boundary on both sides, from index i on
RECURSIVE FindWords(_, _)
FindWords(s, i) ==
    IF i > Len(s) THEN <<>>
    ELSE LET end == SkipClass(s, AsciiLetters, i)
             boundary_before == i = 1 \/ s[i - 1] \notin WordChars
             boundary_after == end > Len(s) \/ s[end] \notin WordChars
         IN IF boundary_before /\ end - i >= 3 /\ boundary_after
            THEN <<SubSeq(s, i, end - 1)>> \o FindWords(s, end)
            ELSE FindWords(s, i + 1)

\* ===================================================================
\* SimilarityAnalyzer (intelligence/similarity.py)
\* ===================================================================
\* SimilarityAnalyzer.__init__ defaults, in thousandths
DefaultSimilarityThreshold == 800
DefaultDuplicateThreshold == 950

\* re.sub(r"[^...]", "", s): only the characters of class stay
RECURSIVE KeepChars(_, _)
KeepChars(s, class) ==
    IF s = <<>> THEN <<>>
    ELSE (IF Head(s) \in class THEN <<Head(s)>> ELSE <<>>) \o KeepChars(Tail(s), class)

\* the characters r"[*_#>`-]" removes
MarkdownChars == {"*", "_", "#", ">", Backtick, "-"}

_normalize_content(content) ==
    Strip(KeepChars(CollapseWhitespace(SubChars(Lower(content), MarkdownChars, <<>>), 1),
                    WordChars \cup Whitespace \cup {"."}))

\* The characters of the documents considered here, in code-point order.
CodePoints ==
    <<"\t", "\n", "\r", " ", "!", "#", "(", ")", "*", "+", ",", "-", ".", "/",
      "0", "1", "2", "3", "4", "5", "6", "7", "8", "9", "<", ">", "?">>
        \o AsciiUppercase \o <<"[", "\\", "]", "_", Backtick>> \o AsciiLowercase

Ord(ch) == CHOOSE i \in DOMAIN CodePoints : CodePoints[i] = ch

HexDigits ==
    <<"0", "1", "2", "3", "4", "5", "6", "7", "8", "9", "a", "b", "c", "d", "e", "f">>

\* hashlib.sha256(s.encode()).hexdigest()[:16].  The digest is a stand-in for
\* SHA-256: sixteen hex digits that depend on every character of s.
RECURSIVE Absorb(_, _)
Absorb(h, s) ==
    IF s = <<>> THEN h ELSE Absorb((h * 31 + Ord(Head(s))) % 65521, Tail(s))

RECURSIVE Squeeze(_, _)
Squeeze(h, n) ==
    IF n = 0 THEN <<>>
    ELSE <<HexDigits[(h % 16) + 1]>> \o Squeeze((h * 31 + 7) % 65521, n - 1)

Sha256Hex16(s) == Squeeze(Absorb(Len(s) + 1, s), 16)

\* mutant of generate_fingerprint: the digest of the content as it is
generate_fingerprint_raw(content) == Sha256Hex16(content)

generate_fingerprint(content) == Sha256Hex16(_normalize_content(content))

_clean_content_for_vector(content) ==
    Strip(CollapseWhitespace(
        SubHeaderMarks(
            SubHtmlTags(
                SubLinks(
                    SubInlineCode(SubCodeBlocks(content, 1), 1), 1), 1), 1), 1))

\* stop_words of _generate_content_vector (133-184)
VectorStopWords ==
    {
        <<"t", "h", "e">>, <<"a", "n", "d">>, <<"f", "o", "r">>,
        <<"a", "r", "e">>, <<"b", "u", "t">>, <<"n", "o", "t">>,
        <<"y", "o", "u">>, <<"a", "l", "l">>, <<"c", "a", "n">>,
        <<"h", "a", "d">>, <<"h", "e", "r">>, <<"w", "a", "s">>,
        <<"o", "n", "e">>, <<"o", "u", "r">>, <<"o", "u", "t">>,
        <<"d", "a", "y">>, <<"g", "e", "t">>, <<"h", "a", "s">>,
        <<"h", "i", "m">>, <<"h", "i", "s">>, <<"h", "o", "w">>,
        <<"i", "t", "s">>, <<"m", "a", "y">>, <<"n", "e", "w">>,
        <<"n", "o", "w">>, <<"o", "l", "d">>, <<"s", "e", "e">>,
        <<"t", "w", "o">>, <<"w", "h", "o">>, <<"b", "o", "y">>,
        <<"d", "i", "d">>, <<"u", "s", "e">>, <<"w", "a", "y">>,
        <<"s", "h", "e">>, <<"o", "i", "l">>, <<"s", "i", "t">>,
        <<"s", "e", "t">>, <<"r", "u", "n">>, <<"e", "a", "t">>,
        <<"f", "a", "r">>, <<"s", "e", "a">>, <<"e", "y", "e">>,
        <<"a", "s", "k">>, <<"o", "w", "n">>, <<"s", "a", "y">>,
        <<"t", "o", "o">>, <<"a", "n", "y">>, <<"t", "r", "y">>,
        <<"l", "e", "t">>, <<"p", "u", "t">>
    }

\* collections.Counter(words): word -> number of occurrences
RECURSIVE Counter(_)
Counter(words) ==
    IF words = <<>> THEN EmptyDict
    ELSE LET before == Counter(SubSeq(words, 1, Len(words) - 1))
             w == words[Len(words)]
         IN IF w \in DOMAIN before
            THEN [before EXCEPT ![w] = @ + 1]
            ELSE before @@ (w :> 1)

_generate_content_vector(content) ==
    Counter(SelectSeq(FindWords(Lower(_clean_content_for_vector(content)), 1),
                      LAMBDA w : w \notin VectorStopWords /\ Len(w) > 2))

\* sum(vector1[word] * vector2[word] for word in words)
RECURSIVE DotProduct(_, _, _)
DotProduct(vector1, vector2, words) ==
    IF words = {} THEN 0
    ELSE LET word == CHOOSE w \in words : TRUE
         IN vector1[word] * vector2[word] + DotProduct(vector1, vector2, words \ {word})

\* A similarity is a binary64 number dot / (n1 ** 0.5 * n2 ** 0.5) for integers
\* dot, n1, n2.  It is kept as [dot, norms], norms the pair of n1 and n2 with
\* the smaller first: the product of two floats does not depend on their order.
\* The real product sqrt(n1 * n2) is an integer only when n1 * n2 is a perfect
\* square, and only then can the similarity meet a decimal fraction exactly.
\* For those pairs the binary64 product n1 ** 0.5 * n2 ** 0.5 is the integer,
\* or the next float above it (the pairs of ProductRoundedUp), or the next
\* float below it (the pairs of ProductRoundedDown), for 1 <= n1 <= n2 <= 48.
ProductRoundedUp ==
    {
        <<2, 2>>, <<2, 8>>, <<2, 32>>, <<5, 5>>, <<5, 20>>, <<5, 45>>,
        <<7, 7>>, <<7, 28>>, <<8, 8>>, <<8, 32>>, <<10, 10>>, <<10, 40>>,
        <<15, 15>>, <<19, 19>>, <<20, 20>>, <<20, 45>>, <<28, 28>>,
        <<32, 32>>, <<40, 40>>, <<45, 45>>
    }
ProductRoundedDown ==
    {
        <<3, 3>>, <<3, 12>>, <<3, 48>>, <<6, 6>>, <<6, 24>>, <<12, 12>>,
        <<12, 48>>, <<13, 13>>, <<18, 18>>, <<23, 23>>, <<24, 24>>,
        <<26, 26>>, <<29, 29>>, <<31, 31>>, <<37, 37>>, <<38, 38>>,
        <<43, 43>>, <<48, 48>>
    }

ProductError(norms) ==
    IF norms \in ProductRoundedUp THEN 1
    ELSE IF norms \in ProductRoundedDown THEN -1
    ELSE 0

\* 0.0 and 1.0
Zero == [dot |-> 0, norms |-> <<1, 1>>]
One == [dot |-> 1, norms |-> <<1, 1>>]

\* similarity > f and similarity == f, for a fraction f
SimilarityAbove(sim, f) ==
    LET lhs == sim.dot * sim.dot * f.den * f.den
        rhs == f.num * f.num * sim.norms[1] * sim.norms[2]
    IN lhs > rhs \/ (lhs = rhs /\ f.num > 0 /\ ProductError(sim.norms) < 0)

SimilarityEquals(sim, f) ==
    /\ sim.dot * sim.dot * f.den * f.den = f.num * f.num * sim.norms[1] * sim.norms[2]
    /\ f.num = 0 \/ ProductError(sim.norms) = 0

\* similarity >= threshold, the threshold in thousandths
SimilarityGeq(sim, milli) ==
    \/ SimilarityAbove(sim, Frac(milli, 1000))
    \/ SimilarityEquals(sim, Frac(milli, 1000))

\* max(0.0, min(1.0, similarity))
Clamp(sim) == IF SimilarityGeq(sim, 1000) THEN One ELSE sim

\* mutant of _calculate_similarity: the dot product taken with the counts of
\* vector1 alone
_calculate_similarity_onesided(vector1, vector2) ==
    IF vector1 = EmptyDict \/ vector2 = EmptyDict THEN Zero
    ELSE Bind(DOMAIN vector1 \cap DOMAIN vector2, LAMBDA common_words :
         IF common_words = {} THEN Zero
         ELSE Bind(DotProduct(vector1, vector1, DOMAIN vector1), LAMBDA n1 :
              Bind(DotProduct(vector2, vector2, DOMAIN vector2), LAMBDA n2 :
                  Clamp([dot |-> DotProduct(vector1, vector1, common_words),
                         norms |-> IF n1 <= n2 THEN <<n1, n2>> ELSE <<n2, n1>>]))))

_calculate_similarity(vector1, vector2) ==
    IF vector1 = EmptyDict \/ vector2 = EmptyDict THEN Zero
    ELSE Bind(DOMAIN vector1 \cap DOMAIN vector2, LAMBDA common_words :
         IF common_words = {} THEN Zero
         ELSE Bind(DotProduct(vector1, vector1, DOMAIN vector1), LAMBDA n1 :
              Bind(DotProduct(vector2, vector2, DOMAIN vector2), LAMBDA n2 :
                  Clamp([dot |-> DotProduct(vector1, vector2, common_words),
                         norms |-> IF n1 <= n2 THEN <<n1, n2>> ELSE <<n2, n1>>]))))

\* the largest r in lo..(hi - 1) with r * r <= n
RECURSIVE IsqrtBetween(_, _, _)
IsqrtBetween(n, lo, hi) ==
    IF hi - lo <= 1 THEN lo
    ELSE LET mid == (lo + hi) \div 2
         IN IF mid * mid <= n THEN IsqrtBetween(n, mid, hi) ELSE IsqrtBetween(n, lo, mid)

\* round(similarity, 3), in thousandths: the nearest thousandth r or r + 1,
\* and of two equally near ones the even one
RoundSimilarity(sim) ==
    LET sq == Frac(sim.dot * sim.dot, sim.norms[1] * sim.norms[2])
        r == IsqrtBetween((1000000 * sq.num) \div sq.den, 0, 1001)
        \* (r + 1/2)^2 against sq * 10^6, times sq.den
        excess == 1000000 * sq.num - (r * r + r) * sq.den
        error == IF sim.dot = 0 THEN 0 ELSE ProductError(sim.norms)
    IN IF excess > sq.den \/ 4 * excess > sq.den THEN r + 1
       ELSE IF 4 * excess < sq.den THEN r
       ELSE IF error < 0 THEN r + 1
       ELSE IF error > 0 THEN r
       ELSE r + (r % 2)

\* ------------------------------------------------------ document bodies
\* str.join and a list of n copies of a word
RECURSIVE Join(_, _)
Join(words, sep) ==
    IF words = <<>> THEN <<>>
    ELSE IF Len(words) = 1 THEN words[1]
    ELSE words[1] \o sep \o Join(Tail(words), sep)

RECURSIVE Copies(_, _)
Copies(word, n) == IF n = 0 THEN <<>> ELSE <<word>> \o Copies(word, n - 1)

React == <<"r", "e", "a", "c", "t">>
Hooks == <<"h", "o", "o", "k", "s">>
State == <<"s", "t", "a", "t", "e">>
Python == <<"p", "y", "t", "h", "o", "n">>
ItIs == <<"I", "t", " ", "i", "s">>

\* The text of each document body.  Bodies 1 to 3 are those of the analyzer's
\* documents (BodyTopics); the others are documents that a stand-alone
\* SimilarityAnalyzer is given.
BodyTexts ==
    << Join(Copies(React, 5) \o Copies(Hooks, 2), <<" ">>),
       Join(Copies(React, 5) \o Copies(State, 2), <<" ">>),
       Join(Copies(Python, 2), <<" ">>),
       Join(Copies(React, 5) \o Copies(Hooks, 2), <<" ">>) \o <<" ", "\n">>,
       ItIs,
       ItIs \o <<"\n">>,
       <<Backtick>> \o React \o <<" ">> \o Hooks \o <<Backtick>>,
       React \o <<" ">> \o Hooks >>

BodyText(c) == BodyTexts[c]

\* doc_vectors[slug]: the vector of the last document with that slug (55-58)
VectorOf(docs, slug) ==
    LET last == CHOOSE i \in DOMAIN docs :
                    docs[i].slug = slug /\ \A j \in (i + 1)..Len(docs) : docs[j].slug # slug
    IN _generate_content_vector(BodyText(docs[last].content))

\* list.sort(key=similarity, reverse=True): stable, descending
RECURSIVE InsertBySimilarity(_, _)
InsertBySimilarity(sorted, e) ==
    IF sorted = <<>> THEN <<e>>
    ELSE IF Head(sorted).similarity >= e.similarity
    THEN <<Head(sorted)>> \o InsertBySimilarity(Tail(sorted), e)
    ELSE <<e>> \o sorted

RECURSIVE SortBySimilarity(_)
SortBySimilarity(seq) ==
    IF seq = <<>> THEN <<>>
    ELSE InsertBySimilarity(SortBySimilarity(SubSeq(seq, 1, Len(seq) - 1)),
                            seq[Len(seq)])

\* A comparison that labels every recorded pair "duplicate".
RECURSIVE SimilarDocsAllDuplicate(_, _, _)
SimilarDocsAllDuplicate(docs, i, j) ==
    IF j > Len(docs) THEN <<>>
    ELSE (IF i >= j THEN <<>>
          ELSE Bind(_calculate_similarity(VectorOf(docs, docs[i].slug),
                                          VectorOf(docs, docs[j].slug)),
                    LAMBDA similarity :
                        IF SimilarityGeq(similarity, DefaultSimilarityThreshold)
                        THEN << [slug |-> docs[j].slug,
                                 title |-> docs[j].title,
                                 similarity |-> RoundSimilarity(similarity),
                                 relationship |-> "duplicate"] >>
                        ELSE <<>>))
         \o SimilarDocsAllDuplicate(docs, i, j + 1)

\* similar_docs of documents[i] before the sort: the inner loop over j (64-86)
RECURSIVE SimilarDocs(_, _, _)
SimilarDocs(docs, i, j) ==
    IF j > Len(docs) THEN <<>>
    ELSE (IF i >= j THEN <<>>
          ELSE Bind(_calculate_similarity(VectorOf(docs, docs[i].slug),
                                          VectorOf(docs, docs[j].slug)),
                    LAMBDA similarity :
                        IF SimilarityGeq(similarity, DefaultSimilarityThreshold)
                        THEN << [slug |-> docs[j].slug,
                                 title |-> docs[j].title,
                                 similarity |-> RoundSimilarity(similarity),
                                 relationship |->
                                     IF SimilarityGeq(similarity, DefaultDuplicateThreshold)
                                     THEN "duplicate" ELSE "similar"] >>
                        ELSE <<>>))
         \o SimilarDocs(docs, i, j + 1)

\* find_similar_documents: the dict slug -> similar_docs after the first n
\* documents of the outer loop
RECURSIVE FindSimilarUpTo(_, _)
FindSimilarUpTo(docs, n) ==
    IF n = 0 THEN EmptyDict
    ELSE LET similar_docs == SimilarDocs(docs, n, 1)
             before == FindSimilarUpTo(docs, n - 1)
         IN IF similar_docs # <<>>
            THEN (docs[n].slug :> SortBySimilarity(similar_docs)) @@ before
            ELSE before

find_similar_documents(docs) == FindSimilarUpTo(docs, Len(docs))

\* --------------------------------------------------------- analyzer, phase 2
\* doc["intelligence"][key] = value
WithIntelligence(doc, key, value) ==
    [doc EXCEPT !.intelligence = (key :> value) @@ doc.intelligence]

\* the cross-linking loop of _analyze_relationships (245-247) over the first
\* n documents: [raised, documents].  An exception ends the loop and leaves the
\* documents not yet reached as they were.
RECURSIVE CrossLinkLoop(_, _)
CrossLinkLoop(docs, n) ==
    IF n = 0 THEN [raised |-> FALSE, documents |-> <<>>]
    ELSE LET before == CrossLinkLoop(docs, n - 1)
         IN IF before.raised \/ FindRelatedRaises(docs[n], docs)
            THEN [raised |-> TRUE, documents |-> Append(before.documents, docs[n])]
            ELSE [raised |-> FALSE,
                  documents |->
                      Append(before.documents,
                             WithIntelligence(docs[n], "related_documents",
                                 find_related_documents(DefaultLinkConfig, docs[n], docs)))]

\* the loop that stores the similarities (253-255), over the first n documents
RECURSIVE SimilarLoop(_, _, _)
SimilarLoop(docs, similarities, n) ==
    IF n = 0 THEN <<>>
    ELSE Append(SimilarLoop(docs, similarities, n - 1),
                WithIntelligence(docs[n], "similar_documents",
                                 Get(similarities, docs[n].slug, <<>>)))

\* _analyze_relationships: [raised, documents]
_analyze_relationships(docs, features) ==
    Bind(IF "cross-linking" \in features
         THEN CrossLinkLoop(docs, Len(docs))
         ELSE [raised |-> FALSE, documents |-> docs],
         LAMBDA linked :
             IF linked.raised \/ "duplicate-detection" \notin features THEN linked
             ELSE Bind(find_similar_documents(linked.documents), LAMBDA similarities :
                      [raised |-> FALSE,
                       documents |->
                           SimilarLoop(linked.documents, similarities, Len(docs))]))

\* A phase 2 that relates each document to every document of the
\* collection, analyzed in this run or not.
Phase2WholeCollection(docs, features) ==
    IF "cross-linking" \in features \/ "duplicate-detection" \in features
    THEN LET r == _analyze_relationships(
                      Phase1(files, Discover(files), features).documents, features)
         IN [documents |->
                 SelectSeq(r.documents,
                           LAMBDA d : \E i \in DOMAIN docs : docs[i].path = d.path),
             errors |-> IF r.raised THEN 1 ELSE 0]
    ELSE [documents |-> docs, errors |-> 0]

\* A phase 2 whose failure discards the documents of Phase 1.
Phase2Discarding(docs, features) ==
    IF "cross-linking" \in features \/ "duplicate-detection" \in features
    THEN LET r == _analyze_relationships(docs, features)
         IN [documents |-> IF r.raised THEN <<>> ELSE r.documents,
             errors |-> IF r.raised THEN 1 ELSE 0]
    ELSE [documents |-> docs, errors |-> 0]

\* analyze 120-129: phase 2 under its try/except
Phase2(docs, features) ==
    IF "cross-linking" \in features \/ "duplicate-detection" \in features
    THEN LET r == _analyze_relationships(docs, features)
         IN [documents |-> r.documents, errors |-> IF r.raised THEN 1 ELSE 0]
    ELSE [documents |-> docs, errors |-> 0]

\* -------------------------------------------------------- analyzer, write-back
\* A write-back that writes the intelligence data as the whole front matter.
_update_mdc_file_intelligence_only(doc_data, fails) ==
    IF fails THEN [raised |-> TRUE, file |-> AbsentFile]
    ELSE [raised |-> FALSE,
          file |-> [kind |-> "doc",
                    content |-> doc_data.content,
                    metadata |-> ("intelligence" :> doc_data.intelligence)]]

\* _update_mdc_file: [raised, file].  fails: open(mdc_path, "w") raises.
_update_mdc_file(doc_data, fails) ==
    IF fails THEN [raised |-> TRUE, file |-> AbsentFile]
    ELSE [raised |-> FALSE,
          file |-> [kind |-> "doc",
                    content |-> doc_data.content,
                    metadata |->
                        ("intelligence" :> doc_data.intelligence) @@ doc_data.metadata]]

\* A write-back loop that ends at the first write that raises.
RECURSIVE WriteBackStopping(_, _, _)
WriteBackStopping(fs, docs, fail_write) ==
    IF docs = <<>> THEN [files |-> fs, updated |-> 0, errors |-> 0]
    ELSE LET doc_data == docs[Len(docs)]
             before == WriteBackStopping(fs, SubSeq(docs, 1, Len(docs) - 1), fail_write)
             w == _update_mdc_file(doc_data, doc_data.path \in fail_write)
         IN IF before.errors > 0 THEN before
            ELSE IF w.raised
            THEN [before EXCEPT !.errors = @ + 1]
            ELSE [files |-> [before.files EXCEPT ![doc_data.path] = w.file],
                  updated |-> before.updated + 1,
                  errors |-> before.errors]

\* analyze 131-140: the write-back loop
RECURSIVE WriteBack(_, _, _)
WriteBack(fs, docs, fail_write) ==
    IF docs = <<>> THEN [files |-> fs, updated |-> 0, errors |-> 0]
    ELSE LET doc_data == docs[Len(docs)]
             before == WriteBack(fs, SubSeq(docs, 1, Len(docs) - 1), fail_write)
             w == _update_mdc_file(doc_data, doc_data.path \in fail_write)
         IN IF w.raised
            THEN [before EXCEPT !.errors = @ + 1]
            ELSE [files |-> [before.files EXCEPT ![doc_data.path] = w.file],
                  updated |-> before.updated + 1,
                  errors |-> before.errors]

\* ------------------------------------------------- analyzer, index and state
NoIndex == [exists |-> FALSE, lines |-> <<>>]
NoStateFile == [exists |-> FALSE, data |-> EmptyDict]

\* An index that appends every entry, whatever its slug.
DictPutAppend(entries, entry) == Append(entries, entry)

\* existing_entries[entry["slug"]] = entry on an insertion-ordered dict, kept
\* as the list of its values
RECURSIVE DictPut(_, _)
DictPut(entries, entry) ==
    IF entries = <<>> THEN <<entry>>
    ELSE IF Head(entries).slug = entry.slug THEN <<entry>> \o Tail(entries)
    ELSE <<Head(entries)>> \o DictPut(Tail(entries), entry)

RECURSIVE DictPutAll(_, _)
DictPutAll(entries, new) ==
    IF new = <<>> THEN entries
    ELSE DictPutAll(DictPut(entries, Head(new)), Tail(new))

\* index_entry of one document (287-292)
index_entry(doc) ==
    [slug |-> doc.slug, title |-> doc.title, path |-> doc.path,
     intelligence |-> doc.intelligence]

\* the loop 286-293: every document's entry put into existing_entries
RECURSIVE PutDocuments(_, _)
PutDocuments(entries, docs) ==
    IF docs = <<>> THEN entries
    ELSE PutDocuments(DictPut(entries, index_entry(Head(docs))), Tail(docs))

\* What goes wrong in one analyze() call, drawn by the environment:
\*   write: the paths whose write-back raises (open(mdc_path, "w") fails);
\*   index: "none"; "open", an exception before the index file is truncated (a
\*          line that is not JSON, a file that cannot be opened); "dump", an
\*          exception after `at` entries were written;
\*   state: the state file cannot be opened for writing.
NoIndexFault == [kind |-> "none", at |-> 0]
NoFaults == [write |-> {}, index |-> NoIndexFault, state |-> FALSE]

IndexFaults ==
    {[kind |-> "open", at |-> 0]} \cup {[kind |-> "dump", at |-> k] : k \in 0..(NumSlugs - 1)}

\* no fault, every single fault, and everything failing at once
FaultPlans ==
    {NoFaults}
        \cup {[NoFaults EXCEPT !.write = {p}] : p \in Paths}
        \cup {[NoFaults EXCEPT !.index = f] : f \in IndexFaults}
        \cup {[NoFaults EXCEPT !.state = TRUE]}
        \cup {[write |-> Paths, index |-> [kind |-> "open", at |-> 0], state |-> TRUE]}

\* An index update without its try/except: a failure propagates.
_update_intelligence_index_uncaught(index, docs, fault) ==
    LET merged == PutDocuments(DictPutAll(<<>>, index.lines), docs)
        failed == fault.kind = "open" \/ (fault.kind = "dump" /\ fault.at < Len(merged))
    IN [raised |-> failed, failed |-> failed,
        index |-> IF failed THEN index ELSE [exists |-> TRUE, lines |-> merged]]

\* _update_intelligence_index: [raised, failed, index]; its try/except catches
\* every exception, so raised is FALSE
_update_intelligence_index(index, docs, fault) ==
    LET existing_entries == DictPutAll(<<>>, index.lines)
        merged == PutDocuments(existing_entries, docs)
    IN IF fault.kind = "open"
       THEN [raised |-> FALSE, failed |-> TRUE, index |-> index]
       ELSE IF fault.kind = "dump" /\ fault.at < Len(merged)
       THEN [raised |-> FALSE, failed |-> TRUE,
             index |-> [exists |-> TRUE, lines |-> SubSeq(merged, 1, fault.at)]]
       ELSE [raised |-> FALSE, failed |-> FALSE,
             index |-> [exists |-> TRUE, lines |-> merged]]

\* _load_analysis_state
_load_analysis_state(sf) == IF ~sf.exists THEN EmptyDict ELSE sf.data

\* _save_analysis_state: [raised, failed, state_file]; fails: the state file
\* cannot be opened for writing.  A file that cannot be loaded gets no entry.
_save_analysis_state(fs, sf, analyzed_files, fails) ==
    LET hashed == {p \in SetOf(analyzed_files) : ~LoadRaises(fs, p)}
        state == [p \in hashed |->
                     [content_hash |-> content_hash(fs[p].content),
                      last_analyzed |-> UtcNow]]
    IN IF fails THEN [raised |-> FALSE, failed |-> TRUE, state_file |-> sf]
       ELSE [raised |-> FALSE, failed |-> FALSE,
             state_file |-> [exists |-> TRUE, data |-> state]]

\* ------------------------------------------------------------------ analyze
NoResult == [kind |-> "none"]
ErrorResult == [kind |-> "error", error |-> "No .mdc files found"]
Raised == [kind |-> "raised"]

\* An analyze() that goes on with an empty collection.
NoFilesFoundNever(mdc_files) == FALSE

\* `if not mdc_files` (80)
NoFilesFound(mdc_files) == mdc_files = <<>>

\* analyze(features, incremental) on the live instance, as one step, with the
\* faults of one of the plans in Plans.
analyze(features_arg, incremental, Plans) ==
    /\ runs < MaxRuns
    /\ runs' = runs + 1
    /\ dirty' = FALSE
    /\ UNCHANGED <<previous_state, edits, pc, locals, trace, linkvars, unitvars>>
    /\ \E features \in {IF features_arg = NoFeaturesArg
                        THEN DefaultFeatures ELSE features_arg},
          mdc_files \in {Discover(files)} :
         IF NoFilesFound(mdc_files)
         THEN /\ result' = ErrorResult
              /\ call' = [incremental |-> incremental, features |-> features,
                          faults |-> NoFaults]
              /\ files_to_analyze' = <<>>
              /\ documents' = <<>>
              /\ log' = {"No .mdc files found"}
              /\ UNCHANGED <<files, state_file, intelligence_index, analyzed>>
         ELSE \E todo \in {_filter_files_for_analysis(files, previous_state, mdc_files,
                                                      incremental)} :
              \E p1 \in {Phase1(files, todo, features)} :
              \E p2 \in {Phase2(p1.documents, features)} :
                /\ files_to_analyze' = todo
                /\ documents' = p2.documents
                /\ analyzed' = analyzed \cup SetOf([i \in DOMAIN p1.documents |->
                                                       p1.documents[i].path])
                /\ \E plan \in Plans :
                   \E wb \in {WriteBack(files, p2.documents,
                                        plan.write \cap {p2.documents[i].path :
                                                            i \in DOMAIN p2.documents})} :
                   \E idx \in {_update_intelligence_index(intelligence_index,
                                                          p2.documents, plan.index)} :
                   \E st \in {_save_analysis_state(wb.files, state_file, todo,
                                                   plan.state)} :
                     /\ call' = [incremental |-> incremental, features |-> features,
                                 faults |-> plan]
                     /\ files' = wb.files
                     /\ intelligence_index' =
                            IF idx.raised THEN intelligence_index ELSE idx.index
                     /\ state_file' =
                            IF idx.raised \/ st.raised THEN state_file ELSE st.state_file
                     /\ log' = (IF p2.errors > 0
                                THEN {"Cross-document analysis failed"} ELSE {})
                               \cup (IF wb.errors > 0
                                     THEN {"Failed to update document"} ELSE {})
                               \cup (IF idx.failed /\ ~idx.raised
                                     THEN {"Failed to update intelligence index"} ELSE {})
                               \cup (IF st.failed /\ ~idx.raised /\ ~st.raised
                                     THEN {"Failed to save analysis state"} ELSE {})
                     /\ result' = IF idx.raised \/ st.raised THEN Raised
                                  ELSE [kind |-> "summary",
                                        processed |-> p1.processed,
                                        updated |-> wb.updated,
                                        skipped |-> p1.skipped,
                                        errors |-> p2.errors + wb.errors,
                                        features_enabled |-> features,
                                        timestamp |-> UtcNow]

\* IntelligenceAnalyzer(source_dir): a new instance loads the state file
NewAnalyzer ==
    /\ previous_state' = _load_analysis_state(state_file)
    /\ UNCHANGED <<files, state_file, intelligence_index, result, call,
                   files_to_analyze, documents, log, dirty, analyzed, runs, edits,
                   pc, locals, trace, linkvars, unitvars>>

\* ---------------------------------------------------------------- environment
\* The upstream emitter writes (or rewrites) the document at path p.
EmitDoc(p, file) ==
    /\ edits < MaxEdits
    /\ edits' = edits + 1
    /\ files[p] # file
    /\ files' = [files EXCEPT ![p] = file]
    /\ dirty' = TRUE
    /\ UNCHANGED <<state_file, intelligence_index, previous_state, result, call,
                   files_to_analyze, documents, log, analyzed, runs, pc, locals,
                   trace, linkvars, unitvars>>

\* The file at p becomes one frontmatter cannot parse.
CorruptDoc(p) ==
    /\ edits < MaxEdits
    /\ edits' = edits + 1
    /\ files[p].kind = "doc"
    /\ files' = [files EXCEPT ![p] = CorruptFile]
    /\ dirty' = TRUE
    /\ UNCHANGED <<state_file, intelligence_index, previous_state, result, call,
                   files_to_analyze, documents, log, analyzed, runs, pc, locals,
                   trace, linkvars, unitvars>>

\* The file at p is removed.
DeleteDoc(p) ==
    /\ edits < MaxEdits
    /\ edits' = edits + 1
    /\ files[p].kind # "absent"
    /\ files' = [files EXCEPT ![p] = AbsentFile]
    /\ dirty' = TRUE
    /\ UNCHANGED <<state_file, intelligence_index, previous_state, result, call,
                   files_to_analyze, documents, log, analyzed, runs, pc, locals,
                   trace, linkvars, unitvars>>

\* The documents the emitter may write at path p, with bodies from C, slugs
\* from S and, when malformed is allowed, a `source` that is not a mapping.
Emitted(p, C, S, malformed) ==
    {EmittedFile(p, c, s, source_ok) :
         c \in C, s \in S, source_ok \in {TRUE} \cup {~malformed}}

\* The slug the emitter derives from path p when slugs do not collide.
SlugFor(p) == ((p - 1) % NumSlugs) + 1

\* All directories whose file at p is absent, unparseable or one of Docs[p].
DirectoriesOver(Docs) ==
    {fs \in [Paths -> {AbsentFile, CorruptFile} \cup UNION {Docs[p] : p \in Paths}] :
         \A p \in Paths : fs[p] \in {AbsentFile, CorruptFile} \cup Docs[p]}

\* No analyze() call has started yet.
NoLocals ==
    [i |-> 1,
     analysis_results |-> [processed |-> 0, updated |-> 0, skipped |-> 0, errors |-> 0],
     start |-> [files |-> <<>>, state_file |-> NoStateFile,
                intelligence_index |-> NoIndex]]

\* A fresh analyzer over a directory that was never analyzed.
InitOver(Dirs) ==
    /\ files \in Dirs
    /\ state_file = NoStateFile
    /\ intelligence_index = NoIndex
    /\ previous_state = _load_analysis_state(NoStateFile)
    /\ result = NoResult
    /\ call = [incremental |-> FALSE, features |-> {}, faults |-> NoFaults]
    /\ files_to_analyze = <<>>
    /\ documents = <<>>
    /\ log = {}
    /\ dirty = FALSE
    /\ analyzed = {}
    /\ runs = 0
    /\ edits = 0
    /\ pc = "idle"
    /\ locals = NoLocals
    /\ trace = <<>>

\* No stand-alone CrossLinker call yet.
NoTarget == EmptyDict

LinkInitOver(Configs) ==
    /\ link_config \in Configs
    /\ link_documents = <<>>
    /\ link_target = NoTarget
    /\ link_related = <<>>

\* No call on a stand-alone component yet; its arguments are one of Args.
UnitInitOver(Args) ==
    /\ component = ""
    /\ arguments \in Args
    /\ returned = None

NoArguments == {<<>>}

\* ---- Spec: incremental runs with the default features and no I/O faults,
\* over documents with distinct slugs
SpecDocs(p) == Emitted(p, Contents, {SlugFor(p)}, TRUE)

Init == InitOver(DirectoriesOver([p \in Paths |-> SpecDocs(p)])) /\ LinkInitOver({DefaultLinkConfig}) /\ UnitInitOver(NoArguments)

Next ==
    \/ \E p \in Paths : \E file \in SpecDocs(p) : EmitDoc(p, file)
    \/ \E p \in Paths : CorruptDoc(p)
    \/ \E p \in Paths : DeleteDoc(p)
    \/ NewAnalyzer
    \/ \E incremental \in BOOLEAN : analyze(NoFeaturesArg, incremental, {NoFaults})

Spec == Init /\ [][Next]_vars

\* ---- SpecFaults: runs whose write-backs, index update and state save may
\* fail, over documents whose slugs may collide
MaxFaultyRuns == 2

FaultyDocs(p) == Emitted(p, {1}, Slugs, TRUE)

InitFaults == InitOver(DirectoriesOver([p \in Paths |-> FaultyDocs(p)])) /\ LinkInitOver({DefaultLinkConfig}) /\ UnitInitOver(NoArguments)

NextFaults ==
    \/ \E p \in Paths : CorruptDoc(p)
    \/ \E p \in Paths : DeleteDoc(p)
    \/ NewAnalyzer
    \/ \E incremental \in BOOLEAN :
           runs < MaxFaultyRuns /\ analyze({"cross-linking"}, incremental, FaultPlans)

SpecFaults == InitFaults /\ [][NextFaults]_vars

\* ---- SpecFeatures: runs with any features argument, one after another over
\* the same documents, without I/O faults
MaxFeatureRuns == 2

FeatureDocs(p) == Emitted(p, {1}, {SlugFor(p)}, TRUE)

InitFeatures == InitOver(DirectoriesOver([p \in Paths |-> FeatureDocs(p)])) /\ LinkInitOver({DefaultLinkConfig}) /\ UnitInitOver(NoArguments)

NextFeatures ==
    \E features_arg \in FeatureArgs, incremental \in BOOLEAN :
        runs < MaxFeatureRuns /\ analyze(features_arg, incremental, {NoFaults})

SpecFeatures == InitFeatures /\ [][NextFeatures]_vars

\* ---- SpecLink: a stand-alone CrossLinker, a collection built one document
\* at a time and one find_related_documents call on it
\* The documents of tests/test_intelligence.py, test_find_related_documents.
ReactHooks ==
    [slug |-> "react-hooks", title |-> "React Hooks",
     metadata |-> [topics |-> <<"react", "hooks">>],
     intelligence |->
         [extracted_topics |-> <<"react", "hooks", "state">>,
          content_fingerprint |-> <<"a", "b", "c", "1", "2", "3">>]]

ReactComponents ==
    [slug |-> "react-components", title |-> "React Components",
     metadata |-> [topics |-> <<"react", "components">>],
     intelligence |->
         [extracted_topics |-> <<"react", "components">>,
          content_fingerprint |-> <<"d", "e", "f", "4", "5", "6">>]]

PythonBasics ==
    [slug |-> "python-basics", title |-> "Python Basics",
     metadata |-> [topics |-> <<"python">>],
     intelligence |->
         [extracted_topics |-> <<"python", "programming">>,
          content_fingerprint |-> <<"g", "h", "i", "7", "8", "9">>]]

\* A document with one declared topic that was never analyzed.
ReactOnly ==
    [slug |-> "react", title |-> "React",
     metadata |-> [topics |-> <<"react">>],
     intelligence |-> EmptyDict]

\* Another document that carries the slug of ReactHooks.
ReactHooksCopy ==
    [slug |-> "react-hooks", title |-> "React Hooks (copy)",
     metadata |-> [topics |-> <<"react", "hooks">>],
     intelligence |->
         [extracted_topics |-> <<"react", "hooks">>,
          content_fingerprint |-> <<"a", "b", "c", "1", "2", "3">>]]

\* Two analyzed documents of one upstream directory with the same body.
GuideA ==
    [slug |-> "guide-a", title |-> "Guide A",
     metadata |-> [source |-> [path |-> <<"g", "/", "a">>]],
     intelligence |->
         [extracted_topics |-> <<"react", "hooks">>,
          quality_metrics |-> BodyQuality(1),
          content_fingerprint |-> BodyFingerprint(1)]]

GuideB ==
    [slug |-> "guide-b", title |-> "Guide B",
     metadata |-> [topics |-> <<"state">>, source |-> [path |-> <<"g", "/", "b">>]],
     intelligence |->
         [extracted_topics |-> <<"react", "hooks">>,
          quality_metrics |-> BodyQuality(2),
          content_fingerprint |-> BodyFingerprint(1)]]

LinkDocs == {ReactHooks, ReactComponents, PythonBasics, ReactOnly, ReactHooksCopy,
             GuideA, GuideB}

\* relevance_threshold (ten-thousandths) and max_related_documents as configured
LinkConfigs ==
    [max_related_documents : {1, DefaultMaxRelated},
     relevance_threshold : {DefaultRelevanceThreshold, 2083, 1000}]

\* a document joins the collection
AddDocument(doc) ==
    /\ link_target = NoTarget
    /\ Len(link_documents) < MaxLinkDocs
    /\ link_documents' = Append(link_documents, doc)
    /\ UNCHANGED <<link_config, link_target, link_related, avars, unitvars>>

\* CrossLinker(config).find_related_documents(doc, link_documents)
FindRelated(doc) ==
    /\ link_target = NoTarget
    /\ link_documents # <<>>
    /\ link_target' = doc
    /\ link_related' = find_related_documents(link_config, doc, link_documents)
    /\ UNCHANGED <<link_config, link_documents, avars, unitvars>>

EmptyDirectory == [p \in Paths |-> AbsentFile]

InitLink == InitOver({EmptyDirectory}) /\ LinkInitOver(LinkConfigs) /\ UnitInitOver(NoArguments)

NextLink ==
    \/ \E doc \in LinkDocs : AddDocument(doc)
    \/ \E doc \in LinkDocs : FindRelated(doc)

SpecLink == InitLink /\ [][NextLink]_vars

\* ---- SpecSimilar: a stand-alone SimilarityAnalyzer with the default
\* thresholds and one find_similar_documents call on a list of documents
MaxSimilarDocs == 3

\* The document at position i of the list, with body c.
SimilarDoc(i, c) == [slug |-> i, title |-> <<"Doc", i>>, content |-> c]

\* The lists of one to MaxSimilarDocs documents with distinct slugs.
SimilarDocLists ==
    UNION {{[i \in 1..n |-> SimilarDoc(i, bodies[i])] :
                bodies \in [1..n -> DOMAIN BodyTexts]} : n \in 1..MaxSimilarDocs}

\* SimilarityAnalyzer().find_similar_documents(arguments)
FindSimilar ==
    /\ component = ""
    /\ component' = "find_similar_documents"
    /\ returned' = find_similar_documents(arguments)
    /\ UNCHANGED <<arguments, avars, linkvars>>

InitSimilar ==
    InitOver({EmptyDirectory}) /\ LinkInitOver({DefaultLinkConfig})
        /\ UnitInitOver(SimilarDocLists)

NextSimilar == FindSimilar

SpecSimilar == InitSimilar /\ [][NextSimilar]_vars

\* ---- SpecCosine: one _calculate_similarity call on a pair of word vectors
\* Number of distinct words in the two vectors, and the largest count of a word.
NumVectorWords == 3
MaxCount == 2

VectorWords == {(<<React, Hooks, State, Python>>)[i] : i \in 1..NumVectorWords}

\* Counter objects over VectorWords: a word with count 0 is not a key.
Vectors ==
    {[w \in {x \in VectorWords : counts[x] > 0} |-> counts[w]] :
         counts \in [VectorWords -> 0..MaxCount]}

\* SimilarityAnalyzer()._calculate_similarity(vector1, vector2)
CalculateSimilarity ==
    /\ component = ""
    /\ component' = "_calculate_similarity"
    /\ returned' = _calculate_similarity(arguments[1], arguments[2])
    /\ UNCHANGED <<arguments, avars, linkvars>>

InitCosine ==
    InitOver({EmptyDirectory}) /\ LinkInitOver({DefaultLinkConfig})
        /\ UnitInitOver(Vectors \X Vectors)

NextCosine == CalculateSimilarity

SpecCosine == InitCosine /\ [][NextCosine]_vars

\* ===================================================================
\* TopicExtractor (intelligence/topic_extraction.py)
\* ===================================================================
\* TopicExtractor.__init__ defaults
DefaultMaxTopics == 10
DefaultMinFrequency == 2

\* self.stop_words (26-134)
TopicStopWords ==
    {
        <<"a">>, <<"a", "b", "o", "u", "t">>, <<"a", "b", "o", "v", "e">>,
        <<"a", "f", "t", "e", "r">>, <<"a", "g", "a", "i", "n", "s", "t">>, <<"a", "l", "l">>,
        <<"a", "m", "o", "n", "g">>, <<"a", "n">>, <<"a", "n", "d">>, <<"a", "n", "y">>,
        <<"a", "r", "e">>, <<"a", "t">>, <<"b", "e">>, <<"b", "e", "e", "n">>,
        <<"b", "e", "f", "o", "r", "e">>, <<"b", "e", "i", "n", "g">>, <<"b", "e", "l", "o", "w">>,
        <<"b", "e", "t", "w", "e", "e", "n">>, <<"b", "o", "t", "h">>, <<"b", "u", "t">>,
        <<"b", "y">>, <<"c", "a", "n">>, <<"c", "o", "u", "l", "d">>, <<"d", "i", "d">>,
        <<"d", "o">>, <<"d", "o", "e", "s">>, <<"d", "u", "r", "i", "n", "g">>,
        <<"e", "a", "c", "h">>, <<"e", "l", "s", "e">>, <<"f", "e", "w">>, <<"f", "o", "r">>,
        <<"f", "r", "o", "m">>, <<"h", "a", "d">>, <<"h", "a", "s">>, <<"h", "a", "v", "e">>,
        <<"h", "e">>, <<"h", "e", "r">>, <<"h", "e", "r", "e">>, <<"h", "i", "m">>,
        <<"h", "i", "s">>, <<"h", "o", "w">>, <<"i">>, <<"i", "f">>, <<"i", "n">>,
        <<"i", "n", "t", "o">>, <<"i", "s">>, <<"i", "t">>, <<"i", "t", "s">>,
        <<"j", "u", "s", "t">>, <<"m", "a", "y">>, <<"m", "e">>, <<"m", "i", "g", "h", "t">>,
        <<"m", "o", "r", "e">>, <<"m", "o", "s", "t">>, <<"m", "u", "s", "t">>, <<"m", "y">>,
        <<"n", "o">>, <<"n", "o", "r">>, <<"n", "o", "t">>, <<"n", "o", "w">>, <<"o", "f">>,
        <<"o", "n">>, <<"o", "n", "l", "y">>, <<"o", "r">>, <<"o", "t", "h", "e", "r">>,
        <<"o", "u", "r">>, <<"o", "w", "n">>, <<"s", "a", "m", "e">>, <<"s", "h", "e">>,
        <<"s", "h", "o", "u", "l", "d">>, <<"s", "o">>, <<"s", "o", "m", "e">>,
        <<"s", "u", "c", "h">>, <<"t", "h", "a", "n">>, <<"t", "h", "a", "t">>, <<"t", "h", "e">>,
        <<"t", "h", "e", "i", "r">>, <<"t", "h", "e", "m">>, <<"t", "h", "e", "n">>,
        <<"t", "h", "e", "r", "e">>, <<"t", "h", "e", "s", "e">>, <<"t", "h", "e", "y">>,
        <<"t", "h", "i", "s">>, <<"t", "h", "o", "s", "e">>, <<"t", "h", "r", "o", "u", "g", "h">>,
        <<"t", "o">>, <<"t", "o", "o">>, <<"u", "p">>, <<"u", "s">>, <<"v", "e", "r", "y">>,
        <<"w", "a", "s">>, <<"w", "e">>, <<"w", "e", "r", "e">>, <<"w", "h", "a", "t">>,
        <<"w", "h", "e", "n">>, <<"w", "h", "e", "r", "e">>, <<"w", "h", "i", "c", "h">>,
        <<"w", "h", "o">>, <<"w", "h", "o", "m">>, <<"w", "h", "o", "s", "e">>, <<"w", "h", "y">>,
        <<"w", "i", "l", "l">>, <<"w", "i", "t", "h">>, <<"w", "o", "u", "l", "d">>,
        <<"y", "o", "u">>, <<"y", "o", "u", "r">>
    }

\* len(word) > 2 and word not in self.stop_words
IsTopicWord(word) == Len(word) > 2 /\ word \notin TopicStopWords

\* the first index j >= i whose character is in class, or Len(s) + 1
SkipTo(s, class, i) ==
    Bind(FirstWhere(s, class, TRUE, i, Len(s)), LAMBDA j :
         IF j > 0 THEN j ELSE IF i > Len(s) THEN i ELSE Len(s) + 1)

\* the largest index j in lo..hi with s[j] not in class, or 0
RECURSIVE LastOutside(_, _, _, _)
LastOutside(s, class, lo, hi) ==
    IF hi < lo THEN 0
    ELSE IF s[hi] \notin class THEN hi
    ELSE LastOutside(s, class, lo, hi - 1)

\* s.split() with seps the whitespace, and the non-empty strings of
\* re.split(r"[...]+", s) with seps the class: the maximal runs of other
\* characters, from index i on
RECURSIVE Tokens(_, _, _)
Tokens(s, seps, i) ==
    LET start == SkipClass(s, seps, i)
        end == SkipTo(s, seps, start)
    IN IF start > Len(s) THEN <<>>
       ELSE <<SubSeq(s, start, end - 1)>> \o Tokens(s, seps, end)

\* s.count(lit) from index i on: occurrences that do not overlap
RECURSIVE CountOccurrences(_, _, _)
CountOccurrences(s, lit, i) ==
    IF lit = <<>> THEN Len(s) + 2 - i
    ELSE LET j == Find(s, lit, i)
         IN IF j = 0 THEN 0 ELSE 1 + CountOccurrences(s, lit, j + Len(lit))

\* re.findall(r"^#+\s+(.+)$", s, re.MULTILINE), from index i on.  \s+ takes the
\* whole run of whitespace after the marks, newlines included, and gives its
\* last character that is not a newline back to (.+) when the run ends s.
\* the first index in lo..hi at which a line starts with "#", or 0
RECURSIVE NextMarks(_, _, _)
NextMarks(s, lo, hi) ==
    IF lo > hi THEN 0
    ELSE IF lo = hi THEN (IF LineStart(s, lo) /\ s[lo] = "#" THEN lo ELSE 0)
    ELSE Bind(NextMarks(s, lo, (lo + hi) \div 2), LAMBDA left :
              IF left > 0 THEN left ELSE NextMarks(s, (lo + hi) \div 2 + 1, hi))

RECURSIVE Headings(_, _)
Headings(s, i) ==
    Bind(NextMarks(s, i, Len(s)), LAMBDA m :
         IF m = 0 THEN <<>>
         ELSE LET marks == SkipClass(s, {"#"}, m)
                  text == SkipClass(s, Whitespace, marks)
                  start == IF text <= Len(s) THEN text
                           ELSE LastOutside(s, {"\n"}, marks + 1, Len(s))
                  end == SkipTo(s, {"\n"}, start)
              IN IF text > marks /\ start > 0
                 THEN <<SubSeq(s, start, end - 1)>> \o Headings(s, end)
                 ELSE Headings(s, m + 1))

\* re.sub(r"\.[^.]+$", "", part)
RemoveExtension(part) ==
    LET dot == LastOutside(part, SetOf(part) \ {"."}, 1, Len(part))
    IN IF dot > 0 /\ dot < Len(part) THEN SubSeq(part, 1, dot - 1) ELSE part

\* the words the loop over one path part appends
PathPartTopics(part) ==
    SelectSeq(Tokens(Lower(RemoveExtension(part)), {"-", "_"} \cup Whitespace, 1),
              IsTopicWord)

RECURSIVE PathPartsTopics(_)
PathPartsTopics(path_parts) ==
    IF path_parts = <<>> THEN <<>>
    ELSE PathPartTopics(Head(path_parts)) \o PathPartsTopics(Tail(path_parts))

_extract_from_path(path) ==
    IF path = <<>> THEN <<>>
    ELSE PathPartsTopics(Split(ReplaceBackslash(path), "/"))

\* the words the loop over one heading appends
HeadingTopics(heading) ==
    SelectSeq(Tokens(SubChars(Lower(heading),
                              SetOf(heading) \ (WordChars \cup Whitespace \cup {"-"}),
                              <<" ">>),
                     Whitespace, 1),
              IsTopicWord)

RECURSIVE HeadingsTopics(_)
HeadingsTopics(headings) ==
    IF headings = <<>> THEN <<>>
    ELSE HeadingTopics(Head(headings)) \o HeadingsTopics(Tail(headings))

_extract_from_headings(content) == HeadingsTopics(Headings(content, 1))

_clean_content_for_analysis(content) ==
    Strip(CollapseWhitespace(
        SubHtmlTags(
            SubChars(
                SubLinks(SubInlineCode(SubCodeBlocks(content, 1), 1), 1),
                {"*", "_", "#", ">", "-"}, <<" ">>), 1), 1))

\* the words of word_freq with freq >= min_topic_frequency, as a set
_extract_from_keywords(content, min_topic_frequency) ==
    Bind(Counter(SelectSeq(FindWords(Lower(_clean_content_for_analysis(content)), 1),
                           LAMBDA w : w \notin TopicStopWords)),
         LAMBDA word_freq :
             {word \in DOMAIN word_freq : word_freq[word] >= min_topic_frequency})

_extract_from_metadata(metadata) ==
    Get(metadata, "topics", <<>>)
        \o SelectSeq(FindWords(Lower(Get(metadata, "title", <<>>)), 1),
                     LAMBDA w : w \notin TopicStopWords)

_appears_in_headings(topic, content) ==
    \E heading \in SetOf(Headings(content, 1)) :
        Find(Lower(heading), Lower(topic), 1) > 0

\* A score is the binary64 number k * (len / 5) for integers k and len < 10, or
\* k * 2.0.  It is kept as the exact product and the direction in which the
\* float product differs from the float nearest to the exact one: one step up
\* for the pairs <<k, len>> of ScoreRoundedUp, one step down for those of
\* ScoreRoundedDown, for k <= 24.  Exact products that differ are at least 0.2
\* apart, so the floats are ordered as the exact products are, and floats of
\* equal exact products are ordered by the direction.
ScoreRoundedUp ==
    {
        <<3, 1>>, <<3, 2>>, <<3, 4>>, <<3, 8>>, <<6, 1>>, <<6, 2>>, <<6, 4>>, <<6, 8>>, <<7, 1>>,
        <<7, 2>>, <<7, 4>>, <<7, 8>>, <<12, 1>>, <<12, 2>>, <<12, 4>>, <<12, 8>>, <<13, 9>>,
        <<14, 1>>, <<14, 2>>, <<14, 4>>, <<14, 8>>, <<17, 1>>, <<17, 2>>, <<17, 4>>, <<17, 8>>,
        <<19, 1>>, <<19, 2>>, <<19, 4>>, <<19, 8>>, <<21, 9>>, <<23, 1>>, <<23, 2>>, <<23, 4>>,
        <<23, 8>>, <<24, 1>>, <<24, 2>>, <<24, 4>>, <<24, 8>>
    }
ScoreRoundedDown ==
    {
        <<3, 3>>, <<3, 6>>, <<3, 7>>, <<6, 3>>, <<6, 6>>, <<6, 7>>, <<7, 7>>, <<9, 3>>, <<9, 6>>,
        <<11, 7>>, <<12, 3>>, <<12, 6>>, <<12, 7>>, <<14, 7>>, <<17, 7>>, <<18, 3>>, <<18, 6>>,
        <<19, 7>>, <<22, 7>>, <<23, 3>>, <<23, 6>>, <<23, 7>>, <<24, 3>>, <<24, 6>>, <<24, 7>>
    }

ScoreError(k, len) ==
    IF <<k, len>> \in ScoreRoundedUp THEN 1
    ELSE IF <<k, len>> \in ScoreRoundedDown THEN -1
    ELSE 0

\* topic_scores[topic] (287-295)
TopicScore(topic, content) ==
    LET frequency == CountOccurrences(Lower(content), Lower(topic), 1)
        heading_boost == IF _appears_in_headings(topic, content) THEN 2 ELSE 1
        length_boost == FracMin(Frac(Len(topic), 5), Frac(2, 1))
        k == frequency * heading_boost
    IN [exact |-> Frac(k * length_boost.num, length_boost.den),
        error |-> IF k = 0 \/ Len(topic) >= 10 THEN 0 ELSE ScoreError(k, Len(topic))]

\* score1 > score2 and score > 0
ScoreGt(score1, score2) ==
    \/ FracGt(score1.exact, score2.exact)
    \/ score1.exact = score2.exact /\ score1.error > score2.error

ScorePositive(score) == score.exact.num > 0

\* sorted(topic_scores.items(), key=lambda x: x[1], reverse=True): a stable
\* sort of the items in their order in the dict
RECURSIVE InsertByScore(_, _)
InsertByScore(sorted, item) ==
    IF sorted = <<>> THEN <<item>>
    ELSE IF ScoreGt(item.score, Head(sorted).score) THEN <<item>> \o sorted
    ELSE <<Head(sorted)>> \o InsertByScore(Tail(sorted), item)

RECURSIVE SortByScore(_)
SortByScore(items) ==
    IF items = <<>> THEN <<>>
    ELSE InsertByScore(SortByScore(SubSeq(items, 1, Len(items) - 1)), items[Len(items)])

\* The orders in which a set can be iterated: set(topics) iterates in an order
\* that depends on the hashes of the strings, which differ from one process
\* to the next.
RECURSIVE IterationOrders(_)
IterationOrders(set) ==
    IF set = {} THEN {<<>>}
    ELSE UNION {{<<x>> \o order : order \in IterationOrders(set \ {x})} : x \in set}

\* topic_scores.items() after the loop of 285-295, as a set
TopicScores(topics, content) ==
    {[topic |-> topic, score |-> TopicScore(topic, content)] : topic \in topics}

\* 298-300 for the items in one order
RankedTopics(items) ==
    Bind(SelectSeq(SortByScore(items), LAMBDA item : ScorePositive(item.score)),
         LAMBDA kept : [i \in DOMAIN kept |-> kept[i].topic])

\* _filter_and_rank_topics(list(topics), content): the lists it can return,
\* one for each iteration order of set(topics)
_filter_and_rank_topics(topics, content) ==
    Bind(TopicScores(topics, content), LAMBDA items :
         {RankedTopics(order) : order \in IterationOrders(items)})

TopicCandidates(config, content, metadata) ==
    SetOf(_extract_from_path(Get(Get(metadata, "source", EmptyDict), "path", <<>>)))
        \cup SetOf(_extract_from_headings(content))
        \cup _extract_from_keywords(content, Get(config, "min_frequency", DefaultMinFrequency))
        \cup SetOf(_extract_from_metadata(metadata))

\* mutant of extract_topics: the ranked list is returned whole
extract_topics_uncut(config, content, metadata) ==
    _filter_and_rank_topics(TopicCandidates(config, content, metadata), content)

\* TopicExtractor(config).extract_topics(content, metadata): the lists it can
\* return
extract_topics(config, content, metadata) ==
    {Take(filtered_topics, Get(config, "max_topics", DefaultMaxTopics)) :
         filtered_topics \in
             _filter_and_rank_topics(TopicCandidates(config, content, metadata), content)}

\* ===================================================================
\* QualityScorer (intelligence/quality_scoring.py)
\* ===================================================================
\* QualityScorer.__init__ defaults and every score, in hundredths
DefaultCompletenessWeight == 40
DefaultFreshnessWeight == 30
DefaultClarityWeight == 30

\* the index of the last character of a match of the pattern that starts at
\* i, or 0 if none starts there
MatchEnd(pattern, s, i) ==
    CASE pattern = "code_blocks" ->
             \* r"```[\s\S]*?```"
             (IF StartsAt(s, Fence, i) /\ Find(s, Fence, i + 3) > 0
              THEN Find(s, Fence, i + 3) + 2 ELSE 0)
      [] pattern = "inline_code" ->
             \* r"`[^`]+`"
             Delimited(s, Backtick, Backtick, i)
      [] pattern = "links" ->
             \* r"\[([^\]]+)\]\([^\)]+\)"
             LinkAt(s, i).end
      [] pattern = "bullet_lists" ->
             \* r"^[-*+]\s+" with re.MULTILINE
             (IF LineStart(s, i) /\ s[i] \in {"-", "*", "+"}
                 /\ SkipClass(s, Whitespace, i + 1) > i + 1
              THEN SkipClass(s, Whitespace, i + 1) - 1 ELSE 0)
      [] pattern = "numbered_lists" ->
             \* r"^\d+\.\s+" with re.MULTILINE
             LET dot == SkipClass(s, DecimalDigits, i)
             IN IF LineStart(s, i) /\ dot > i /\ dot <= Len(s) /\ s[dot] = "."
                   /\ SkipClass(s, Whitespace, dot + 1) > dot + 1
                THEN SkipClass(s, Whitespace, dot + 1) - 1 ELSE 0
      [] pattern = "bold_text" ->
             \* r"\*\*[^*]+\*\*"
             LET close == SkipTo(s, {"*"}, i + 2)
             IN IF StartsAt(s, <<"*", "*">>, i) /\ close > i + 2
                   /\ StartsAt(s, <<"*", "*">>, close)
                THEN close + 1 ELSE 0
      [] pattern = "italic_text" ->
             \* r"\*[^*]+\*"
             Delimited(s, "*", "*", i)

\* len(re.findall(pattern, s)), from index i on
\* the first index in lo..hi at which a match of the pattern starts, or 0
RECURSIVE NextMatch(_, _, _, _)
NextMatch(pattern, s, lo, hi) ==
    IF lo > hi THEN 0
    ELSE IF lo = hi THEN (IF MatchEnd(pattern, s, lo) > 0 THEN lo ELSE 0)
    ELSE Bind(NextMatch(pattern, s, lo, (lo + hi) \div 2), LAMBDA left :
              IF left > 0 THEN left
              ELSE NextMatch(pattern, s, (lo + hi) \div 2 + 1, hi))

RECURSIVE CountMatches(_, _, _)
CountMatches(pattern, s, i) ==
    Bind(NextMatch(pattern, s, i, Len(s)), LAMBDA m :
         IF m = 0 THEN 0
         ELSE 1 + CountMatches(pattern, s, MatchEnd(pattern, s, m) + 1))

\* s.split(sep) for a str sep
RECURSIVE SplitOn(_, _)
SplitOn(s, sep) ==
    LET j == Find(s, sep, 1)
    IN IF j = 0 THEN <<s>>
       ELSE <<SubSeq(s, 1, j - 1)>> \o SplitOn(SubSeq(s, j + Len(sep), Len(s)), sep)

\* the indices at which the words of s.split() start
WordStarts(s) ==
    {i \in DOMAIN s : s[i] \notin Whitespace /\ (i = 1 \/ s[i - 1] \in Whitespace)}

\* len(content.split())
WordCount(s) == Cardinality(WordStarts(s))

\* sum(len(s.split()) for s in sentences)
RECURSIVE SumWordCounts(_)
SumWordCounts(sentences) ==
    IF sentences = <<>> THEN 0
    ELSE WordCount(Head(sentences)) + SumWordCounts(Tail(sentences))

_score_completeness(content, metadata) ==
    LET headings == Len(Headings(content, 1))
        word_count == WordCount(content)
        code_blocks == CountMatches("code_blocks", content, 1)
        inline_code == CountMatches("inline_code", content, 1)
        links == CountMatches("links", content, 1)
        score ==
            (IF Get(metadata, "title", <<>>) # <<>> THEN 20 ELSE 0)
            + (IF headings >= 2 THEN 30 ELSE IF headings >= 1 THEN 15 ELSE 0)
            + (IF 100 <= word_count /\ word_count <= 5000 THEN 20
               ELSE IF (50 <= word_count /\ word_count < 100)
                       \/ (5000 < word_count /\ word_count <= 10000) THEN 10
               ELSE 0)
            + (IF code_blocks > 0 \/ inline_code >= 3 THEN 15 ELSE 0)
            + (IF links >= 2 THEN 15 ELSE IF links >= 1 THEN 10 ELSE 0)
    IN IF score < 100 THEN score ELSE 100

\* (now - fetched_at).days for instants in hours: whole days, rounded down
HoursPerDay == 24
DaysOld(now, fetched_at) == (now - fetched_at) \div HoursPerDay

\* mutant of AgeScore: an age on a threshold falls in the older class
AgeScoreStrict(days_old) ==
    IF days_old < 30 THEN 100
    ELSE IF days_old < 90 THEN 80
    ELSE IF days_old < 180 THEN 60
    ELSE IF days_old < 365 THEN 40
    ELSE 20

\* the score of an age in days (115-124)
AgeScore(days_old) ==
    IF days_old <= 30 THEN 100
    ELSE IF days_old <= 90 THEN 80
    ELSE IF days_old <= 180 THEN 60
    ELSE IF days_old <= 365 THEN 40
    ELSE 20

\* metadata["fetched_at"] is a record [kind, ...]: kind "str" with the instant
\* (in hours) that datetime.fromisoformat reads from it, kind "empty" for "",
\* kind "garbage" for a str fromisoformat raises ValueError on, kind "number"
\* for a value without endswith (AttributeError).  now is datetime.now(UTC)
\* in hours.
_score_freshness(metadata, now) ==
    IF "fetched_at" \notin DOMAIN metadata THEN 50
    ELSE LET fetched_at_str == metadata["fetched_at"]
         IN IF fetched_at_str.kind = "empty" THEN 50
            ELSE IF fetched_at_str.kind \in {"garbage", "number"} THEN 50
            ELSE AgeScore(DaysOld(now, fetched_at_str.instant))

_score_clarity(content) ==
    LET split == SplitOn(content, <<"\n", "\n">>)
        paragraphs == Len(SelectSeq(split, LAMBDA p : Strip(p) # <<>>))
        sentences == SelectSeq(Tokens(content, {".", "!", "?"}, 1),
                               LAMBDA s : Strip(s) # <<>>)
        total == SumWordCounts(sentences)
        n == Len(sentences)
        bullet_lists == CountMatches("bullet_lists", content, 1)
        numbered_lists == CountMatches("numbered_lists", content, 1)
        words == WordCount(content)
        long_words == Cardinality({i \in WordStarts(content) :
                                       SkipTo(content, Whitespace, i) - i > 12})
        bold_text == CountMatches("bold_text", content, 1)
        italic_text == CountMatches("italic_text", content, 1)
        score ==
            (IF paragraphs >= 3 THEN 20 ELSE IF paragraphs >= 2 THEN 10 ELSE 0)
            \* avg_sentence_length = total / n against 15, 25, 10, 35, 5, 50
            + (IF n = 0 THEN 0
               ELSE IF 15 * n <= total /\ total <= 25 * n THEN 30
               ELSE IF (10 * n <= total /\ total < 15 * n)
                       \/ (25 * n < total /\ total <= 35 * n) THEN 20
               ELSE IF (5 * n <= total /\ total < 10 * n)
                       \/ (35 * n < total /\ total <= 50 * n) THEN 10
               ELSE 0)
            + (IF bullet_lists >= 3 \/ numbered_lists >= 3 THEN 20
               ELSE IF bullet_lists >= 1 \/ numbered_lists >= 1 THEN 10 ELSE 0)
            \* long_word_ratio = long_words / len(words) against 0.05 and 0.1
            + (IF 20 * long_words < words \/ words = 0 THEN 20
               ELSE IF 10 * long_words < words THEN 10 ELSE 0)
            + (IF bold_text >= 2 \/ italic_text >= 2 THEN 10 ELSE 0)
    IN IF score < 100 THEN score ELSE 100

\* round(x, 2) for x = n / 10000, in hundredths: the nearest hundredth, a tie
\* to the even one
Round2(n) ==
    LET q == n \div 100
        r == n % 100
    IN IF r > 50 THEN q + 1
       ELSE IF r < 50 THEN q
       ELSE q + (q % 2)

\* mutant of score_quality: the overall score is the plain sum
score_quality_unweighted(content, metadata, now) ==
    Bind(_score_completeness(content, metadata), LAMBDA completeness :
    Bind(_score_freshness(metadata, now), LAMBDA freshness :
    Bind(_score_clarity(content), LAMBDA clarity :
        [completeness |-> completeness, freshness |-> freshness, clarity |-> clarity,
         overall |-> completeness + freshness + clarity])))

score_quality(content, metadata, now) ==
    Bind(_score_completeness(content, metadata), LAMBDA completeness :
    Bind(_score_freshness(metadata, now), LAMBDA freshness :
    Bind(_score_clarity(content), LAMBDA clarity :
        [completeness |-> completeness, freshness |-> freshness, clarity |-> clarity,
         overall |-> Round2(completeness * DefaultCompletenessWeight
                                + freshness * DefaultFreshnessWeight
                                + clarity * DefaultClarityWeight)])))

\* ---- SpecFreshness: one _score_freshness call of a QualityScorer
\* fetched_at lies up to MaxAgeDays days before the latest instant, at the
\* start of an hour; the call is made at the latest instant or an hour before.
MaxAgeDays == 400

Timestamp(instant) == [kind |-> "str", instant |-> instant]

FetchedAtValues ==
    {[kind |-> "empty"], [kind |-> "garbage"], [kind |-> "number"]}
        \cup {Timestamp(HoursPerDay * d + h) : d \in 0..MaxAgeDays, h \in {0, 1, 23}}

FreshnessArguments ==
    {[metadata |-> metadata, now |-> now] :
         metadata \in {EmptyDict} \cup {[fetched_at |-> v] : v \in FetchedAtValues},
         now \in {HoursPerDay * MaxAgeDays - 1, HoursPerDay * MaxAgeDays}}

\* QualityScorer()._score_freshness(metadata) at the instant now
ScoreFreshness ==
    /\ component = ""
    /\ component' = "_score_freshness"
    /\ returned' = _score_freshness(arguments.metadata, arguments.now)
    /\ UNCHANGED <<arguments, avars, linkvars>>

InitFreshness ==
    InitOver({EmptyDirectory}) /\ LinkInitOver({DefaultLinkConfig})
        /\ UnitInitOver(FreshnessArguments)

NextFreshness == ScoreFreshness

SpecFreshness == InitFreshness /\ [][NextFreshness]_vars

\* ---- SpecQuality: one score_quality call of a QualityScorer
\* a document with two headings, a code block, two links, two bold spans and
\* three bullets
StructuredText ==
    <<"#", " ", "a", "\n", "#", "#", " ", "b", "\n", "\n", Backtick, Backtick, Backtick, "x",
      Backtick, Backtick, Backtick, " ", "[", "a", "]", "(", "b", ")", " ", "[", "c", "]", "(",
      "d", ")", " ", "*", "*", "a", "*", "*", " ", "*", "*", "b", "*", "*", "\n", "\n", "-",
      " ", "a", "\n", "-", " ", "a", "\n", "-", " ", "a", "\n", "\n">>

\* StructuredText and five sentences of twenty words
CompleteText ==
    StructuredText
        \o Join(Copies(Join(Copies(<<"a">>, 20), <<" ">>) \o <<" ", ".">>, 5), <<>>)

\* document contents: none, one long word, fifty words, one heading and two
\* paragraphs, and the two above
QualityContents ==
    <<
        <<>>,
        <<"e", "x", "t", "r", "a", "o", "r", "d", "i", "n", "a", "r", "i", "l", "y">>,
        Join(Copies(<<"a">>, 50), <<" ">>),
        <<"#", " ", "a", "\n", "\n", "a", " ", "a", " ", "a", " ", "a", " ", "a", ".", " ",
          "a", " ", "a", " ", "a", " ", "a", " ", "a", "\n", "\n", "1", ".", " ", "a">>,
        StructuredText,
        CompleteText
    >>

QualityMetadata ==
    {title @@ fetched_at :
         title \in {EmptyDict, [title |-> <<"T">>]},
         fetched_at \in {EmptyDict, [fetched_at |-> [kind |-> "garbage"]]}
             \cup {[fetched_at |-> Timestamp(HoursPerDay * (MaxAgeDays - d))] :
                       d \in {10, 60, 120, 200, MaxAgeDays}}}

QualityArguments ==
    {[content |-> QualityContents[c], metadata |-> metadata,
      now |-> HoursPerDay * MaxAgeDays] :
         c \in DOMAIN QualityContents, metadata \in QualityMetadata}

\* QualityScorer().score_quality(content, metadata) at the instant now
ScoreQuality ==
    /\ component = ""
    /\ component' = "score_quality"
    /\ returned' = score_quality(arguments.content, arguments.metadata, arguments.now)
    /\ UNCHANGED <<arguments, avars, linkvars>>

InitQuality ==
    InitOver({EmptyDirectory}) /\ LinkInitOver({DefaultLinkConfig})
        /\ UnitInitOver(QualityArguments)

NextQuality == ScoreQuality

SpecQuality == InitQuality /\ [][NextQuality]_vars

\* ---- SpecCli: the intelligence command run again and again
\* Each run of the command constructs an IntelligenceAnalyzer, which loads the
\* state file, and calls analyze(incremental=True) on it (__main__.py 980-981);
\* no document is touched between the runs.
CliAnalyze ==
    /\ previous_state = _load_analysis_state(state_file)
    /\ analyze(NoFeaturesArg, TRUE, {NoFaults})

NextCli == NewAnalyzer \/ CliAnalyze

SpecCli == Init /\ [][NextCli]_vars

\* ---- SpecTopics: one extract_topics call of a TopicExtractor
\* A max_topics small enough for the ranked list to be cut.
SmallMaxTopics == 2

\* document contents: none, with headings, with a hyphenated heading word,
\* with a stop word only as often as a keyword, with keywords of equal score
TopicContents ==
    <<
        \* 1: ""
        <<>>,
        \* 2: "# React Hooks\nreact hooks react hooks the the state"
        <<"#", " ", "R", "e", "a", "c", "t", " ", "H", "o", "o", "k", "s", "\n", "r", "e", "a",
          "c", "t", " ", "h", "o", "o", "k", "s", " ", "r", "e", "a", "c", "t", " ", "h", "o",
          "o", "k", "s", " ", "t", "h", "e", " ", "t", "h", "e", " ", "s", "t", "a", "t", "e">>,
        \* 3: "## Use-State is it\nstate state python python python"
        <<"#", "#", " ", "U", "s", "e", "-", "S", "t", "a", "t", "e", " ", "i", "s", " ", "i",
          "t", "\n", "s", "t", "a", "t", "e", " ", "s", "t", "a", "t", "e", " ", "p", "y", "t",
          "h", "o", "n", " ", "p", "y", "t", "h", "o", "n", " ", "p", "y", "t", "h", "o", "n">>,
        \* 4: "react react the the"
        <<"r", "e", "a", "c", "t", " ", "r", "e", "a", "c", "t", " ", "t", "h", "e", " ", "t",
          "h", "e">>,
        \* 5: "python python state state react react"
        <<"p", "y", "t", "h", "o", "n", " ", "p", "y", "t", "h", "o", "n", " ", "s", "t", "a",
          "t", "e", " ", "s", "t", "a", "t", "e", " ", "r", "e", "a", "c", "t", " ", "r", "e",
          "a", "c", "t">>
    >>

GuidesPath == <<"g", "u", "i", "d", "e", "s", "/", "r", "e", "a", "c", "t", "-", "h", "o", "o", "k", "s",
      ".", "m", "d">>

\* config dicts: the defaults, a small max_topics, every word a keyword
TopicConfigs == {EmptyDict, [max_topics |-> SmallMaxTopics], [min_frequency |-> 1]}

\* metadata dicts: none, a title, declared topics, a source path, both
TopicMetadata ==
    {EmptyDict,
     [title |-> <<"T", "h", "e", " ", "R", "e", "a", "c", "t", " ", "S", "t", "a", "t", "e">>],
     [topics |-> <<<<"R", "e", "a", "c", "t">>, <<"t", "h", "e">>, <<"j", "s">>>>],
     [source |-> [path |-> GuidesPath]],
     [topics |-> <<Python>>, title |-> <<"P", "y", "t", "h", "o", "n">>]}

TopicArguments ==
    {[config |-> config, content |-> TopicContents[c], metadata |-> metadata] :
         config \in TopicConfigs, c \in DOMAIN TopicContents, metadata \in TopicMetadata}

\* TopicExtractor(config).extract_topics(content, metadata)
ExtractTopics ==
    /\ component = ""
    /\ component' = "extract_topics"
    /\ \E topics \in extract_topics(arguments.config, arguments.content,
                                    arguments.metadata) :
           returned' = topics
    /\ UNCHANGED <<arguments, avars, linkvars>>

InitTopics ==
    InitOver({EmptyDirectory}) /\ LinkInitOver({DefaultLinkConfig})
        /\ UnitInitOver(TopicArguments)

NextTopics == ExtractTopics

SpecTopics == InitTopics /\ [][NextTopics]_vars

\* ---- SpecFingerprint: generate_fingerprint calls on two contents
\* A content is up to MaxPieces pieces, each a word or one character that the
\* normalization treats in its own way; MaxFingerprintCalls calls are made.
MaxPieces == 2
MaxFingerprintCalls == 2

FingerprintPieces ==
    {<<"C", "a", "t">>, <<" ">>, <<"\n">>, <<"-">>, <<",">>, <<".">>}

\* The concatenations of up to n pieces.
RECURSIVE TextsOf(_, _)
TextsOf(pieces, n) ==
    IF n = 0 THEN {<<>>}
    ELSE LET shorter == TextsOf(pieces, n - 1)
         IN shorter \cup {t \o piece : t \in shorter, piece \in pieces}

\* SimilarityAnalyzer().generate_fingerprint(arguments[k])
\* the contents are fingerprinted in turn
GenerateFingerprint(k) ==
    /\ component = "" \/ Len(returned) < MaxFingerprintCalls
    /\ k = ((IF component = "" THEN 0 ELSE Len(returned)) % 2) + 1
    /\ component' = "generate_fingerprint"
    /\ returned' = (IF component = "" THEN <<>> ELSE returned)
                       \o << [argument |-> k,
                              fingerprint |-> generate_fingerprint(arguments[k])] >>
    /\ UNCHANGED <<arguments, avars, linkvars>>

InitFingerprint ==
    InitOver({EmptyDirectory}) /\ LinkInitOver({DefaultLinkConfig})
        /\ UnitInitOver(TextsOf(FingerprintPieces, MaxPieces)
                            \X TextsOf(FingerprintPieces, MaxPieces))

NextFingerprint == \E k \in 1..2 : GenerateFingerprint(k)

SpecFingerprint == InitFingerprint /\ [][NextFingerprint]_vars



\* ---- SpecRelationship: one _determine_relationship_type call of a CrossLinker
\* on a target, a candidate and a relevance
\* upstream source paths: none, files of one directory, of a directory below
\* it, of another directory, of a directory whose name starts with the name
\* of the first, a file at the top and a file under the root
RelationshipPaths ==
    {EmptyStr,
     <<"g", "/", "a">>, <<"g", "/", "b">>, <<"g", "/", "s", "/", "d">>,
     <<"h", "/", "c">>, <<"g", "x", "/", "e">>, <<"g">>, <<"/", "r">>}

\* extracted topics
RelationshipTopics ==
    {<<>>,
     <<"react", "hooks">>,
     <<"react", "hooks", "state">>,
     <<"react", "hooks", "state", "python", "tutorial">>,
     <<"tutorial", "python">>,
     <<"overview", "python">>,
     <<"example", "concept">>}

RelationshipDoc(path, topics) ==
    [slug |-> <<path, topics>>, title |-> EmptyStr,
     metadata |-> IF path = EmptyStr THEN EmptyDict ELSE [source |-> [path |-> path]],
     intelligence |-> [extracted_topics |-> topics]]

RelationshipDocs ==
    {RelationshipDoc(path, topics) :
         path \in RelationshipPaths, topics \in RelationshipTopics}

\* a target with a path and topics, a candidate, and a relevance in tenths
RelationshipArguments ==
    [doc1 : RelationshipDocs, doc2 : RelationshipDocs, relevance : 4..10]

\* CrossLinker()._determine_relationship_type(doc1, doc2, relevance)
DetermineRelationshipType ==
    /\ component = ""
    /\ component' = "_determine_relationship_type"
    /\ returned' = _determine_relationship_type(arguments.doc1, arguments.doc2,
                                                Frac(arguments.relevance, 10))
    /\ UNCHANGED <<arguments, avars, linkvars>>

InitRelationship ==
    InitOver({EmptyDirectory}) /\ LinkInitOver({DefaultLinkConfig})
        /\ UnitInitOver(RelationshipArguments)

NextRelationship == DetermineRelationshipType

SpecRelationship == InitRelationship /\ [][NextRelationship]_vars

\* ---- SpecSteps: analyze() executed statement by statement, under any fault
\* plan, with the default features, cross-linking alone or quality scoring
\* alone
MaxStepRuns == 2

StepDocs(p) == Emitted(p, {1}, {SlugFor(p)}, TRUE)

StepFeatureArgs == {NoFeaturesArg, {"cross-linking"}, {"quality-scoring"}}

\* an entry of the trace: the call made, and the path it is made for (0 for
\* the calls on the whole collection)
Event(name, path) == [event |-> name, path |-> path]

\* `for x in list` with index i: the loop is over
LoopDoneEarly(i, list) == i > 1 \/ i > Len(list)

LoopDone(i, list) == i > Len(list)

\* analyze 63-103: the call starts; discovery, the filter, the empty counters
BeginAnalyze(features_arg, incremental, plan) ==
    /\ pc = "idle"
    /\ runs < MaxStepRuns
    /\ dirty' = FALSE
    /\ trace' = <<>>
    /\ documents' = <<>>
    /\ UNCHANGED <<files, state_file, intelligence_index, previous_state, analyzed,
                   edits, linkvars, unitvars>>
    /\ \E features \in {IF features_arg = NoFeaturesArg
                        THEN DefaultFeatures ELSE features_arg},
          mdc_files \in {Discover(files)} :
         IF NoFilesFound(mdc_files)
         THEN /\ result' = ErrorResult
              /\ call' = [incremental |-> incremental, features |-> features,
                          faults |-> NoFaults]
              /\ files_to_analyze' = <<>>
              /\ log' = {"No .mdc files found"}
              /\ runs' = runs + 1
              /\ UNCHANGED <<pc, locals>>
         ELSE \E todo \in {_filter_files_for_analysis(files, previous_state, mdc_files,
                                                      incremental)} :
              /\ call' = [incremental |-> incremental, features |-> features,
                          faults |-> plan]
              /\ files_to_analyze' = todo
              /\ log' = {}
              /\ locals' = [i |-> 1,
                            analysis_results |->
                                [processed |-> 0, updated |-> 0, skipped |-> 0,
                                 errors |-> 0],
                            start |-> [files |-> files, state_file |-> state_file,
                                       intelligence_index |-> intelligence_index]]
              /\ pc' = IF LoopDone(1, todo) THEN "phase2" ELSE "phase1"
              /\ UNCHANGED <<result, runs>>

\* analyze 105-118: one iteration of the Phase 1 loop
AnalyzeDocument ==
    /\ pc = "phase1"
    /\ \E mdc_path \in {files_to_analyze[locals.i]} :
       \E doc_data \in {_analyze_document(files, mdc_path, call.features)} :
         /\ documents' = IF doc_data.ok THEN Append(documents, doc_data.doc)
                         ELSE documents
         /\ analyzed' = IF doc_data.ok THEN analyzed \cup {mdc_path} ELSE analyzed
         /\ locals' = [locals EXCEPT
                           !.i = @ + 1,
                           !.analysis_results.processed =
                               IF doc_data.ok THEN @ + 1 ELSE @,
                           !.analysis_results.skipped =
                               IF doc_data.ok THEN @ ELSE @ + 1]
         /\ trace' = Append(trace, Event("_analyze_document", mdc_path))
         /\ pc' = IF LoopDone(locals.i + 1, files_to_analyze) THEN "phase2" ELSE "phase1"
    /\ UNCHANGED <<files, state_file, intelligence_index, previous_state, result,
                   call, files_to_analyze, log, dirty, runs, edits, linkvars, unitvars>>

\* analyze 120-129: Phase 2
AnalyzeRelationships ==
    /\ pc = "phase2"
    /\ IF "cross-linking" \in call.features \/ "duplicate-detection" \in call.features
       THEN \E r \in {_analyze_relationships(documents, call.features)} :
              /\ documents' = r.documents
              /\ locals' = [locals EXCEPT
                                !.i = 1,
                                !.analysis_results.errors =
                                    IF r.raised THEN @ + 1 ELSE @]
              /\ log' = IF r.raised THEN log \cup {"Cross-document analysis failed"}
                        ELSE log
              /\ trace' = Append(trace, Event("_analyze_relationships", 0))
       ELSE /\ locals' = [locals EXCEPT !.i = 1]
            /\ UNCHANGED <<documents, log, trace>>
    /\ pc' = IF LoopDone(1, documents) THEN "index" ELSE "write_back"
    /\ UNCHANGED <<files, state_file, intelligence_index, previous_state, result,
                   call, files_to_analyze, dirty, analyzed, runs, edits, linkvars,
                   unitvars>>

\* analyze 131-140: one iteration of the write-back loop
UpdateMdcFile ==
    /\ pc = "write_back"
    /\ \E doc_data \in {documents[locals.i]} :
       \E w \in {_update_mdc_file(doc_data, doc_data.path \in call.faults.write)} :
         /\ files' = IF w.raised THEN files
                     ELSE [files EXCEPT ![doc_data.path] = w.file]
         /\ locals' = [locals EXCEPT
                           !.i = @ + 1,
                           !.analysis_results.updated = IF w.raised THEN @ ELSE @ + 1,
                           !.analysis_results.errors = IF w.raised THEN @ + 1 ELSE @]
         /\ log' = IF w.raised THEN log \cup {"Failed to update document"} ELSE log
         /\ trace' = Append(trace, Event("_update_mdc_file", doc_data.path))
         /\ pc' = IF LoopDone(locals.i + 1, documents) THEN "index" ELSE "write_back"
    /\ UNCHANGED <<state_file, intelligence_index, previous_state, result, call,
                   files_to_analyze, documents, dirty, analyzed, runs, edits, linkvars,
                   unitvars>>

\* analyze 142-143
UpdateIntelligenceIndex ==
    /\ pc = "index"
    /\ \E idx \in {_update_intelligence_index(intelligence_index, documents,
                                              call.faults.index)} :
         /\ intelligence_index' = idx.index
         /\ log' = IF idx.failed THEN log \cup {"Failed to update intelligence index"}
                   ELSE log
    /\ trace' = Append(trace, Event("_update_intelligence_index", 0))
    /\ pc' = "state"
    /\ UNCHANGED <<files, state_file, previous_state, result, call, files_to_analyze,
                   documents, dirty, analyzed, runs, edits, locals, linkvars, unitvars>>

\* analyze 145-153: the state is saved and the call returns its summary
SaveAnalysisState ==
    /\ pc = "state"
    /\ \E st \in {_save_analysis_state(files, state_file, files_to_analyze,
                                       call.faults.state)} :
         /\ state_file' = st.state_file
         /\ log' = IF st.failed THEN log \cup {"Failed to save analysis state"} ELSE log
    /\ trace' = Append(trace, Event("_save_analysis_state", 0))
    /\ result' = [kind |-> "summary",
                  processed |-> locals.analysis_results.processed,
                  updated |-> locals.analysis_results.updated,
                  skipped |-> locals.analysis_results.skipped,
                  errors |-> locals.analysis_results.errors,
                  features_enabled |-> call.features,
                  timestamp |-> UtcNow]
    /\ runs' = runs + 1
    /\ pc' = "idle"
    /\ UNCHANGED <<files, intelligence_index, previous_state, call, files_to_analyze,
                   documents, dirty, analyzed, edits, locals, linkvars, unitvars>>

InitSteps == InitOver(DirectoriesOver([p \in Paths |-> StepDocs(p)])) /\ LinkInitOver({DefaultLinkConfig}) /\ UnitInitOver(NoArguments)

NextSteps ==
    \/ pc = "idle" /\ NewAnalyzer
    \/ \E features_arg \in StepFeatureArgs, incremental \in BOOLEAN, plan \in FaultPlans :
           BeginAnalyze(features_arg, incremental, plan)
    \/ AnalyzeDocument
    \/ AnalyzeRelationships
    \/ UpdateMdcFile
    \/ UpdateIntelligenceIndex
    \/ SaveAnalysisState

SpecSteps == InitSteps /\ [][NextSteps]_vars

\* ===================================================================
\* Properties of the incremental analyzer (Spec)
\* ===================================================================
\* This step is an analyze() call.
AnalyzeStep == runs' = runs + 1

\* C1: analyze(incremental=True) run twice in succession, with no document
\* changed in between, processes no document in the second run.
C1_SecondRunProcessesNothing ==
    [][(AnalyzeStep /\ runs >= 1 /\ ~dirty
            /\ call.incremental /\ result.kind = "summary"
            /\ call'.incremental /\ result'.kind = "summary")
           => result'.processed = 0]_vars

\* The documents a declarative reading of the filter selects: those that
\* cannot be hashed, have no stored entry, or whose stored hash differs.
NeedsAnalysis(fs, prev) ==
    {p \in Paths :
        /\ fs[p].kind # "absent"
        /\ \/ fs[p].kind = "corrupt"
           \/ p \notin DOMAIN prev
           \/ "content_hash" \notin DOMAIN prev[p]
           \/ prev[p].content_hash # content_hash(fs[p].content)}

\* C3: with incremental=True the files analyze() goes on with are exactly the
\* discovered documents whose hash differs from the one the loaded state
\* stores for their path, that have no stored entry, or that cannot be hashed;
\* with incremental=False they are all the discovered documents.
C3_FilterSelectsChanged ==
    [][(AnalyzeStep /\ Discover(files) # <<>>)
           => files_to_analyze' =
                  IF call'.incremental
                  THEN PathList(NeedsAnalysis(files, previous_state))
                  ELSE Discover(files)]_vars

\* An incremental run left an unchanged document out and took in one that
\* had to be analyzed.
C3_Witness ==
    /\ runs >= 2
    /\ call.incremental
    /\ ~dirty
    /\ \E p, q \in Paths :
           /\ files[p].kind = "doc" /\ p \notin SetOf(files_to_analyze)
           /\ files[q].kind # "absent" /\ q \in SetOf(files_to_analyze)

\* C4: every document that some run so far analyzed successfully, and that is
\* still a readable document, has an entry in the persisted analysis state
\* (one direction of "present iff analyzed in some prior run").
C4_AnalyzedPathsStayInState ==
    {p \in analyzed : files[p].kind = "doc"} \subseteq DOMAIN _load_analysis_state(state_file)

\* C6: an analyze() call that discovers no document returns the error result
\* and analyzes and writes nothing: files, state file and index stay as they
\* were.
C6_NoDocumentsNoProcessing ==
    [][(AnalyzeStep /\ Discover(files) = <<>>)
           => /\ result' = ErrorResult
              /\ documents' = <<>>
              /\ files_to_analyze' = <<>>
              /\ UNCHANGED <<files, state_file, intelligence_index, analyzed>>]_vars

\* A call found the directory empty after an earlier call had analyzed a
\* document there.
C6_Witness ==
    /\ result = ErrorResult
    /\ runs >= 2
    /\ state_file.exists
    /\ intelligence_index.exists

\* ===================================================================
\* Properties of analyze() under failures (SpecFaults)
\* ===================================================================
\* C2: every analyze() call returns: the error result when it discovers no
\* document, a summary otherwise, whatever fails in a document's analysis, in
\* the cross-document phase, in a write-back, in the index update or in the
\* state save; no exception leaves analyze().
C2_AlwaysReturns ==
    [][AnalyzeStep
           => result'.kind = IF Discover(files) = <<>> THEN "error" ELSE "summary"]_vars

\* A call returned its summary although the cross-document phase, a
\* write-back, the index update and the state save all failed.
C2_Witness ==
    /\ result.kind = "summary"
    /\ result.errors >= 2
    /\ {"Cross-document analysis failed", "Failed to update document",
        "Failed to update intelligence index", "Failed to save analysis state"}
           \subseteq log

SlugsOf(seq) == {seq[i].slug : i \in DOMAIN seq}

UniqueSlugs(lines) ==
    \A i, j \in DOMAIN lines : lines[i].slug = lines[j].slug => i = j

\* the last document of docs with slug s
LastWithSlug(docs, s) ==
    docs[CHOOSE i \in DOMAIN docs :
             docs[i].slug = s /\ \A j \in (i + 1)..Len(docs) : docs[j].slug # s]

\* new is old merged with the entries of docs, by slug, last write wins
IndexMergedBy(old, new, docs) ==
    /\ UniqueSlugs(new.lines)
    /\ SlugsOf(new.lines) = SlugsOf(old.lines) \cup SlugsOf(docs)
    /\ \A s \in SlugsOf(docs) : index_entry(LastWithSlug(docs, s)) \in SetOf(new.lines)
    /\ \A i \in DOMAIN old.lines :
           old.lines[i].slug \notin SlugsOf(docs) => old.lines[i] \in SetOf(new.lines)

\* C7 as stated: after every analyze() call the index holds one entry per slug,
\* the entry of each slug analyzed in the call is the new snapshot of the last
\* document with that slug, and the other entries are retained unchanged.
C7_IndexMergedAfterEveryRun ==
    [][AnalyzeStep
           => IndexMergedBy(intelligence_index, intelligence_index', documents')]_vars

\* C7, amended: after every analyze() call the index holds at most one entry
\* per slug; when the call's index update did not fail, the entry of each slug
\* analyzed in the call is the new snapshot of the last document with that
\* slug and the other entries are retained unchanged.
C7_IndexMergedUnlessUpdateFailed ==
    [][AnalyzeStep
           => /\ UniqueSlugs(intelligence_index'.lines)
              /\ "Failed to update intelligence index" \notin log'
                     => IndexMergedBy(intelligence_index, intelligence_index',
                                      documents')]_vars

\* A second call updated the index with the documents it analyzed, and the
\* entry of a slug it did not analyze was kept.
C7_Witness ==
    /\ runs = 2
    /\ result.kind = "summary"
    /\ "Failed to update intelligence index" \notin log
    /\ documents # <<>>
    /\ \E i \in DOMAIN intelligence_index.lines :
           intelligence_index.lines[i].slug \notin SlugsOf(documents)

\* ===================================================================
\* Properties of the written records (SpecFeatures)
\* ===================================================================
\* the per-document fields a feature set asks for, with last_analyzed
PerDocumentFields(features) ==
    {"last_analyzed"}
        \cup (IF "topic-extraction" \in features THEN {"extracted_topics"} ELSE {})
        \cup (IF "quality-scoring" \in features THEN {"quality_metrics"} ELSE {})
        \cup (IF "cross-linking" \in features \/ "duplicate-detection" \in features
              THEN {"content_fingerprint"} ELSE {})

\* the cross-document fields a feature set asks for
CrossDocumentFields(features) ==
    (IF "cross-linking" \in features THEN {"related_documents"} ELSE {})
        \cup (IF "duplicate-detection" \in features THEN {"similar_documents"} ELSE {})

\* the intelligence records the call that ends in this step wrote
WrittenRecords ==
    {files'[documents'[i].path].metadata.intelligence : i \in DOMAIN documents'}

C8_NeverRelatedToItself ==
    link_target # NoTarget
        => \A i \in DOMAIN link_related : link_related[i].slug # link_target.slug

\* The target and another document with its slug were in the collection, and
\* the call returned other documents.
C8_Witness ==
    /\ link_target = ReactHooks
    /\ \E i, j \in DOMAIN link_documents :
           link_documents[i] = ReactHooks /\ link_documents[j] = ReactHooksCopy
    /\ link_related # <<>>

\* the candidates of a call: the documents that are not skipped as the target
Candidates == {d \in SetOf(link_documents) : d.slug # link_target.slug}

\* the relevance find_related_documents reports for a candidate, in thousandths
ReportedRelevance(d) ==
    Round3(_calculate_relevance(link_target, d, AllTopics(link_target)))

\* the candidates with no entry in the result
LeftOut ==
    {d \in Candidates :
        \A i \in DOMAIN link_related :
            ~(/\ link_related[i].slug = d.slug
              /\ link_related[i].title = d.title
              /\ link_related[i].relevance = ReportedRelevance(d))}

\* at most max_related_documents entries, in non-increasing relevance order,
\* and no candidate left out is reported more relevant than a returned one
BoundedAndOrdered ==
    /\ Len(link_related) <= link_config.max_related_documents
    /\ \A i, j \in DOMAIN link_related :
           i < j => link_related[i].relevance >= link_related[j].relevance
    /\ \A d \in LeftOut : \A i \in DOMAIN link_related :
           ReportedRelevance(d) <= link_related[i].relevance

\* C9 as stated: the result is bounded and ordered, and every entry's relevance
\* is at least relevance_threshold.
C9_RelevanceAtLeastThreshold ==
    link_target # NoTarget
        => /\ BoundedAndOrdered
           /\ \A i \in DOMAIN link_related :
                  link_related[i].relevance * 10 >= link_config.relevance_threshold

\* C9, amended: the result is bounded and ordered; every entry's relevance is
\* the three-decimal rounding of a score that is at least relevance_threshold,
\* so it is at least the threshold less 0.0005, and at least the threshold
\* when the threshold is a multiple of 0.001.
C9_RoundedRelevanceNearThreshold ==
    link_target # NoTarget
        => /\ BoundedAndOrdered
           /\ \A i \in DOMAIN link_related :
                  /\ link_related[i].relevance * 10 >= link_config.relevance_threshold - 5
                  /\ link_config.relevance_threshold % 10 = 0
                         => link_related[i].relevance * 10
                                >= link_config.relevance_threshold
                  /\ \E d \in Candidates :
                         /\ d.slug = link_related[i].slug
                         /\ link_related[i].relevance = ReportedRelevance(d)
                         /\ FracGeq(_calculate_relevance(link_target, d,
                                                       AllTopics(link_target)),
                                    Frac(link_config.relevance_threshold, 10000))

\* A call with max_related_documents = 1 returned its one entry and left out
\* a candidate that passed the threshold.
C9_Witness ==
    /\ link_target # NoTarget
    /\ link_config.max_related_documents = 1
    /\ Len(link_related) = 1
    /\ \E d \in LeftOut :
           ReportedRelevance(d) * 10 >= link_config.relevance_threshold

\* a candidate as in the test: no source path on either side, no quality
\* metrics on either side, and a fingerprint other than the target's
PlainPair(d) ==
    /\ SourcePath(link_target) = EmptyStr /\ SourcePath(d) = EmptyStr
    /\ "quality_metrics" \notin DOMAIN link_target.intelligence
    /\ "quality_metrics" \notin DOMAIN d.intelligence
    /\ Get(link_target.intelligence, "content_fingerprint", EmptyStr)
           # Get(d.intelligence, "content_fingerprint", <<"?">>)

\* C10: with the default configuration, a plain candidate that shares a topic
\* with the target is returned with relevance >= 0.4 and one of the four
\* general relationships, and a plain candidate with no topic in common is
\* not returned.
C10_SameTopicIsRelated ==
    (link_target # NoTarget /\ link_config = DefaultLinkConfig)
        => \A d \in Candidates :
               PlainPair(d)
                   => IF AllTopics(d) \cap AllTopics(link_target) # {}
                      THEN \E i \in DOMAIN link_related :
                               /\ link_related[i].slug = d.slug
                               /\ link_related[i].relevance >= 400
                               /\ link_related[i].relationship
                                      \in {"related-content", "highly-related",
                                           "related", "tangentially-related"}
                      ELSE \A i \in DOMAIN link_related :
                               link_related[i].slug # d.slug

\* ===================================================================
\* Properties of the SimilarityAnalyzer (SpecSimilar)
\* ===================================================================
\* The cosine similarity of documents i and j of the list, as the analyzer
\* computes it.
PairSimilarity(i, j) ==
    _calculate_similarity(_generate_content_vector(BodyText(arguments[i].content)),
                          _generate_content_vector(BodyText(arguments[j].content)))

\* The result list of document i holds an entry for document j.
ListedFor(i, j) ==
    /\ arguments[i].slug \in DOMAIN returned
    /\ \E k \in DOMAIN returned[arguments[i].slug] :
           returned[arguments[i].slug][k].slug = arguments[j].slug

\* C11: for every pair of distinct documents whose cosine similarity is at
\* least similarity_threshold, find_similar_documents records the pair in
\* both documents' result lists: each list has an entry for the other.
C11_PairInBothLists ==
    component = "find_similar_documents" =>
        \A i, j \in DOMAIN arguments :
            (i < j /\ SimilarityGeq(PairSimilarity(i, j), DefaultSimilarityThreshold))
                => ListedFor(i, j) /\ ListedFor(j, i)

\* Documents i and j are a pair that find_similar_documents labelled
\* "duplicate", in the list of either.
DuplicatePair(i, j) ==
    \E a, b \in {i, j} :
        /\ a # b
        /\ arguments[a].slug \in DOMAIN returned
        /\ \E k \in DOMAIN returned[arguments[a].slug] :
               /\ returned[arguments[a].slug][k].slug = arguments[b].slug
               /\ returned[arguments[a].slug][k].relationship = "duplicate"

\* C12: two documents whose contents are identical after the fingerprint
\* normalization (differing, say, only in trailing whitespace) get equal
\* fingerprints from generate_fingerprint and are classified as a "duplicate"
\* pair by find_similar_documents.
C12_SameNormalizedContentIsDuplicate ==
    component = "find_similar_documents" =>
        \A i, j \in DOMAIN arguments :
            (/\ i < j
             /\ _normalize_content(BodyText(arguments[i].content))
                    = _normalize_content(BodyText(arguments[j].content)))
                => /\ generate_fingerprint(BodyText(arguments[i].content))
                          = generate_fingerprint(BodyText(arguments[j].content))
                   /\ DuplicatePair(i, j)

\* ===================================================================
\* Properties of _calculate_similarity (SpecCosine)
\* ===================================================================
\* The call returned a similarity that does not depend on the order of the
\* vectors, that lies in [0, 1], and that is 0 when a vector is empty or the
\* vectors share no word.
SymmetricBoundedZero ==
    /\ returned = _calculate_similarity(arguments[2], arguments[1])
    /\ returned.dot >= 0
    /\ ~SimilarityAbove(returned, Frac(1, 1))
    /\ (\/ arguments[1] = EmptyDict
        \/ arguments[2] = EmptyDict
        \/ DOMAIN arguments[1] \cap DOMAIN arguments[2] = {})
           => returned = Zero

CalledCandidates ==
    TopicCandidates(arguments.config, arguments.content, arguments.metadata)

CalledMaxTopics == Get(arguments.config, "max_topics", DefaultMaxTopics)

\* C15: every topic extract_topics returns is a lowercase token of more than
\* 2 characters that is no stop word, whichever source contributed it, and no
\* two returned topics are equal ignoring case.
C15_TopicsLowercaseLongNoStopWordDistinct ==
    component = "extract_topics" =>
        /\ \A i \in DOMAIN returned :
               /\ returned[i] = Lower(returned[i])
               /\ Len(returned[i]) > 2
               /\ returned[i] \notin TopicStopWords
        /\ \A i, j \in DOMAIN returned :
               i # j => Lower(returned[i]) # Lower(returned[j])

\* C16: extract_topics returns at most max_topics topics, all of them
\* candidates with a score above 0, in an order of non-increasing score; it
\* returns none for empty content; and no candidate it leaves out has a
\* higher score than one it returns.
C16_TopRankedPositiveTopics ==
    component = "extract_topics" =>
        /\ Len(returned) <= CalledMaxTopics
        /\ \A i \in DOMAIN returned :
               /\ returned[i] \in CalledCandidates
               /\ ScorePositive(TopicScore(returned[i], arguments.content))
        /\ \A i, j \in DOMAIN returned :
               i < j => ~FracGt(TopicScore(returned[j], arguments.content).exact,
                                TopicScore(returned[i], arguments.content).exact)
        /\ arguments.content = <<>> => returned = <<>>
        /\ \A topic \in CalledCandidates \ SetOf(returned) :
               \A i \in DOMAIN returned :
                   ~FracGt(TopicScore(topic, arguments.content).exact,
                           TopicScore(returned[i], arguments.content).exact)

\* The ranked list was cut: max_topics topics are returned and a candidate
\* with a score above 0 is left out.
C16_Witness ==
    /\ component = "extract_topics"
    /\ Len(returned) = CalledMaxTopics
    /\ \E topic \in CalledCandidates \ SetOf(returned) :
           ScorePositive(TopicScore(topic, arguments.content))

\* ===================================================================
\* Properties of QualityScorer (SpecQuality, SpecFreshness)
\* ===================================================================
\* C17: with the default weights, each of completeness, freshness, clarity
\* and overall that score_quality returns lies in [0, 1], and overall is
\* 0.4 * completeness + 0.3 * freshness + 0.3 * clarity (scores in hundredths).
C17_MetricsInUnitIntervalOverallWeighted ==
    component = "score_quality" =>
        /\ \A metric \in {"completeness", "freshness", "clarity", "overall"} :
               returned[metric] \in 0..100
        /\ 100 * returned.overall
               = 40 * returned.completeness + 30 * returned.freshness
                     + 30 * returned.clarity

\* A call returned the highest score for every metric, and so for overall.
C17_Witness ==
    /\ component = "score_quality"
    /\ returned.completeness = 100
    /\ returned.freshness = 100
    /\ returned.clarity = 100
    /\ returned.overall = 100

\* the age in whole days of the fetched_at of the call: the d with
\* d days <= now - fetched_at < d + 1 days
CalledAge ==
    CHOOSE d \in -2..(MaxAgeDays + 1) :
        LET hours == arguments.now - arguments.metadata.fetched_at.instant
        IN HoursPerDay * d <= hours /\ hours < HoursPerDay * (d + 1)

\* C18: _score_freshness is a step function of the age in whole days: 1.0 up
\* to 30 days, 0.8 up to 90, 0.6 up to 180, 0.4 up to 365 (so for 200 days),
\* 0.2 beyond; for a missing or unparsable fetched_at it is 0.5, and it always
\* returns a score (scores in hundredths).
C18_FreshnessStepFunction ==
    component = "_score_freshness" =>
        IF "fetched_at" \notin DOMAIN arguments.metadata
               \/ arguments.metadata.fetched_at.kind # "str"
        THEN returned = 50
        ELSE /\ CalledAge <= 30 => returned = 100
             /\ 30 < CalledAge /\ CalledAge <= 90 => returned = 80
             /\ 90 < CalledAge /\ CalledAge <= 180 => returned = 60
             /\ 180 < CalledAge /\ CalledAge <= 365 => returned = 40
             /\ CalledAge = 200 => returned = 40
             /\ 365 < CalledAge => returned = 20

\* A document fetched exactly 200 days before the call was scored 0.4.
C18_Witness ==
    /\ component = "_score_freshness"
    /\ "fetched_at" \in DOMAIN arguments.metadata
    /\ arguments.metadata.fetched_at.kind = "str"
    /\ arguments.now - arguments.metadata.fetched_at.instant = HoursPerDay * 200
    /\ returned = 40

\* ===================================================================
\* Properties of repeated incremental runs (SpecCli, Spec)
\* ===================================================================
\* C19: over consecutive analyze(incremental=True) runs, each with a fresh
\* analyzer and with no document changed, every run after the first processes
\* no document, goes on with no document an earlier run analyzed, and leaves
\* every entry of the state file in place.
C19_UnchangedNeverReanalyzed ==
    [][(AnalyzeStep /\ runs >= 1)
           => /\ result'.kind = "summary" => result'.processed = 0
              /\ \A p \in analyzed : p \notin SetOf(files_to_analyze')
              /\ \A p \in DOMAIN _load_analysis_state(state_file) :
                     p \in DOMAIN _load_analysis_state(state_file')]_vars

\* C20: an analyze(incremental=True) call that follows another one filters
\* against the state file as the earlier call left it, as an analyzer
\* constructed just before the call would, whether or not it is made on the
\* instance that made the earlier call.
C20_SameInstanceFiltersLikeFresh ==
    [][(AnalyzeStep /\ runs >= 1 /\ call.incremental /\ call'.incremental)
           => files_to_analyze'
                  = _filter_files_for_analysis(files, _load_analysis_state(state_file),
                                               Discover(files), TRUE)]_vars


\* ===================================================================
\* Properties of the phases of analyze() (Spec, SpecFaults)
\* ===================================================================
\* the files of the working set whose analysis fails in Phase 1
Phase1Failed(fs, todo, features) ==
    {p \in SetOf(todo) : ~_analyze_document(fs, p, features).ok}

\* C21: a document whose Phase 1 analysis fails is counted in the summary's
\* errors, is not among the documents of Phase 2, is not written back and gets
\* no new index entry, and every other document of the working set is still
\* analyzed.
C21_AnalysisFailureCountedInErrors ==
    [][(AnalyzeStep /\ Discover(files) # <<>>)
           => LET failed == Phase1Failed(files, files_to_analyze', call'.features)
              IN /\ result'.kind = "summary"
                 /\ result'.errors >= Cardinality(failed)
                 /\ \A i \in DOMAIN documents' : documents'[i].path \notin failed
                 /\ \A p \in failed : files'[p] = files[p]
                 /\ \A i \in DOMAIN intelligence_index'.lines :
                        intelligence_index'.lines[i].path \in failed
                            => intelligence_index'.lines[i]
                                   \in SetOf(intelligence_index.lines)
                 /\ \A p \in SetOf(files_to_analyze') \ failed :
                        \E i \in DOMAIN documents' : documents'[i].path = p]_vars


\* the intelligence record rec holds every field of the record phase1
HoldsFields(rec, phase1) ==
    \A k \in DOMAIN phase1 : k \in DOMAIN rec /\ rec[k] = phase1[k]

\* C22: when the cross-document phase raises (and nothing else fails), errors
\* is exactly one, and every document that succeeded in Phase 1 is written
\* back with its Phase 1 fields and has its entry, with those fields, in the
\* index.
C22_Phase2FailureKeepsPhase1Results ==
    [][(AnalyzeStep /\ "Cross-document analysis failed" \in log')
           => Bind(Phase1(files, files_to_analyze', call'.features).documents,
                   LAMBDA succeeded :
                 /\ result'.kind = "summary"
                 /\ result'.errors = 1
                 /\ result'.updated = Len(succeeded)
                 /\ \A i \in DOMAIN succeeded :
                        /\ files'[succeeded[i].path].kind = "doc"
                        /\ files'[succeeded[i].path].content = succeeded[i].content
                        /\ "intelligence" \in DOMAIN files'[succeeded[i].path].metadata
                        /\ HoldsFields(files'[succeeded[i].path].metadata.intelligence,
                                       succeeded[i].intelligence)
                        /\ \E j \in DOMAIN intelligence_index'.lines :
                               /\ intelligence_index'.lines[j].slug = succeeded[i].slug
                               /\ intelligence_index'.lines[j].path = succeeded[i].path
                               /\ HoldsFields(intelligence_index'.lines[j].intelligence,
                                              succeeded[i].intelligence))]_vars

\* The cross-document phase of a call with quality scoring and cross-linking
\* failed, and the call wrote back both documents and indexed them.
C22_Witness ==
    /\ "Cross-document analysis failed" \in log
    /\ {"quality-scoring", "cross-linking"} \subseteq call.features
    /\ result.kind = "summary"
    /\ result.processed = 2
    /\ result.updated = 2
    /\ Len(intelligence_index.lines) = 2
    /\ \A p \in Paths :
           /\ "intelligence" \in DOMAIN files[p].metadata
           /\ "quality_metrics" \in DOMAIN files[p].metadata.intelligence


\* the documents of the call that ends in this step whose write-back raises
FailingWrites ==
    {i \in DOMAIN documents' : documents'[i].path \in call'.faults.write}

\* C23: each document whose write-back raises adds one to errors and nothing
\* to updated, and every other document of the run is written back and
\* counted in updated.
C23_WriteFailureDoesNotBlockOthers ==
    [][(AnalyzeStep /\ result'.kind = "summary")
           => /\ result'.updated = Len(documents') - Cardinality(FailingWrites)
              /\ result'.errors
                     = Cardinality(FailingWrites)
                           + (IF "Cross-document analysis failed" \in log' THEN 1 ELSE 0)
              /\ \A i \in DOMAIN documents' \ FailingWrites :
                     files'[documents'[i].path]
                         = _update_mdc_file(documents'[i], FALSE).file]_vars

\* The write-back of the first of two analyzed documents failed and the
\* second was written back.
C23_Witness ==
    /\ result.kind = "summary"
    /\ Len(documents) = 2
    /\ call.faults.write = {documents[1].path}
    /\ result.errors = 1
    /\ result.updated = 1
    /\ "intelligence" \notin DOMAIN files[documents[1].path].metadata
    /\ "intelligence" \in DOMAIN files[documents[2].path].metadata


\* ===================================================================
\* Properties of the order of the steps of analyze() (SpecSteps)
\* ===================================================================
\* A run executed statement by statement ends in the state, and returns the
\* summary, that analyze taken as one step computes from the state the run
\* started in.
StepsComputeAnalyze ==
    [][(pc = "state" /\ pc' = "idle")
           => \E todo \in {_filter_files_for_analysis(locals.start.files, previous_state,
                               Discover(locals.start.files), call.incremental)} :
              \E p1 \in {Phase1(locals.start.files, todo, call.features)} :
              \E p2 \in {Phase2(p1.documents, call.features)} :
              \E wb \in {WriteBack(locals.start.files, p2.documents,
                                   call.faults.write \cap {p2.documents[i].path :
                                                              i \in DOMAIN p2.documents})} :
              \E idx \in {_update_intelligence_index(locals.start.intelligence_index,
                                                     p2.documents, call.faults.index)} :
              \E st \in {_save_analysis_state(wb.files, locals.start.state_file, todo,
                                              call.faults.state)} :
                /\ files_to_analyze' = todo
                /\ documents' = p2.documents
                /\ files' = wb.files
                /\ intelligence_index' = idx.index
                /\ state_file' = st.state_file
                /\ result' = [kind |-> "summary",
                              processed |-> p1.processed,
                              updated |-> wb.updated,
                              skipped |-> p1.skipped,
                              errors |-> p2.errors + wb.errors,
                              features_enabled |-> call.features,
                              timestamp |-> UtcNow]]_vars

\* the positions of the trace that hold a call of the given name
EventsOf(name) == {k \in DOMAIN trace : trace[k].event = name}

\* the place of a call in the order of analyze()
Rank(name) ==
    CASE name = "_analyze_document" -> 1
      [] name = "_analyze_relationships" -> 2
      [] name = "_update_mdc_file" -> 3
      [] name = "_update_intelligence_index" -> 4
      [] name = "_save_analysis_state" -> 5

\* the calls made so far are in the order of the phases; Phase 2 is entered
\* only with every file of the working set analyzed, the write-back only with
\* Phase 2 over, the index update only with every document written back (or
\* its write attempted), and the state save only after the index update
InPhaseOrder ==
    /\ \A k, l \in DOMAIN trace :
           k < l => Rank(trace[k].event) <= Rank(trace[l].event)
    /\ \A k \in EventsOf("_analyze_document") : trace[k].path = files_to_analyze[k]
    /\ Cardinality(EventsOf("_analyze_relationships")) <= 1
    /\ Cardinality(EventsOf("_update_intelligence_index")) <= 1
    /\ Cardinality(EventsOf("_save_analysis_state")) <= 1
    /\ (\E k \in DOMAIN trace : Rank(trace[k].event) >= 2)
           => Cardinality(EventsOf("_analyze_document")) = Len(files_to_analyze)
    /\ (\E k \in DOMAIN trace : Rank(trace[k].event) >= 3)
           => (("cross-linking" \in call.features
                    \/ "duplicate-detection" \in call.features)
                   => EventsOf("_analyze_relationships") # {})
    /\ (\E k \in DOMAIN trace : Rank(trace[k].event) >= 4)
           => {trace[k].path : k \in EventsOf("_update_mdc_file")}
                  = {documents[i].path : i \in DOMAIN documents}
    /\ EventsOf("_save_analysis_state") # {}
           => EventsOf("_update_intelligence_index") # {}

\* C24: in a run of analyze() that finds documents the calls are made in the
\* order of the phases, with Phase 1 complete before Phase 2, Phase 2 before
\* the write-back and all per-document work before the index update and then
\* the state save; a run that returned its summary made each of those two
\* exactly once, and the index file and the state file change in no other
\* step.
C24_PhasesInOrderArtifactsOnce ==
    /\ [](InPhaseOrder
            /\ ((pc = "idle" /\ result.kind = "summary")
                    => /\ Cardinality(EventsOf("_update_intelligence_index")) = 1
                       /\ Cardinality(EventsOf("_save_analysis_state")) = 1))
    /\ [][/\ intelligence_index' # intelligence_index => pc = "index"
          /\ state_file' # state_file => pc = "state"
          /\ files' # files => pc = "write_back"]_vars

\* A run analyzed two documents, ran Phase 2, wrote both back, updated the
\* index, saved the state and returned.
C24_Witness ==
    /\ pc = "idle"
    /\ result.kind = "summary"
    /\ Len(trace) = 7
    /\ trace[3].event = "_analyze_relationships"
    /\ trace[7].event = "_save_analysis_state"
    /\ intelligence_index.exists
    /\ state_file.exists


\* ===================================================================
\* Properties of the cross-document phase within analyze() (Spec)
\* ===================================================================
\* the slugs a written record lists as related or similar documents
ListedSlugs(rec) ==
    SlugsOf(Get(rec, "related_documents", <<>>))
        \cup SlugsOf(Get(rec, "similar_documents", <<>>))

\* the discovered documents the filter left out of the run that ends in this
\* step
SkippedByFilter == SetOf(Discover(files)) \ SetOf(files_to_analyze')

\* C25: every slug in a related_documents or similar_documents list that a run
\* writes is the slug of a document that succeeded Phase 1 in that run, and is
\* not the slug of a document the incremental filter left out.
C25_RelatedOnlyAmongAnalyzed ==
    [][AnalyzeStep
           => \A r \in WrittenRecords : \A s \in ListedSlugs(r) :
                  /\ s \in SlugsOf(Phase1(files, files_to_analyze',
                                          call'.features).documents)
                  /\ \A p \in SkippedByFilter :
                         files[p].kind = "doc" => files[p].metadata.slug # s]_vars

\* An incremental run analyzed one changed document and left out an unchanged
\* one with the same body; the record it wrote lists no document. An earlier
\* run had analyzed both and listed each in the other's record.
C25_Witness ==
    /\ runs >= 2
    /\ call.incremental
    /\ Len(documents) = 1
    /\ \E p \in Paths :
           /\ p # documents[1].path
           /\ files[p].kind = "doc"
           /\ files[p].content = documents[1].content
           /\ p \notin SetOf(files_to_analyze)
           /\ "intelligence" \in DOMAIN files[p].metadata
    /\ files[documents[1].path].metadata.intelligence.related_documents = <<>>
    /\ files[documents[1].path].metadata.intelligence.similar_documents = <<>>


\* ===================================================================
\* Properties of what analyze() changes in the documents (Spec)
\* ===================================================================
\* the front matter of a file without its intelligence sub-map
OtherMetadata(file) ==
    [k \in DOMAIN file.metadata \ {"intelligence"} |-> file.metadata[k]]

TargetTopics == SetOf(arguments.doc1.intelligence.extracted_topics)
CandidateTopics == SetOf(arguments.doc2.intelligence.extracted_topics)

\* The rules in their priority order, each with whether it matches the call
\* and the label it gives.  The path rule matches as the code tests it: the
\* candidate's path starts with the target's path cut at its last "/", or the
\* target's path starts with the candidate's path cut at its last "/".
RelationshipRules ==
    << [matches |-> /\ SourcePath(arguments.doc1) # EmptyStr
                    /\ SourcePath(arguments.doc2) # EmptyStr
                    /\ StartsWith(SourcePath(arguments.doc2),
                                  RSplitHead(SourcePath(arguments.doc1), "/")),
        label |-> "sibling"],
       [matches |-> /\ SourcePath(arguments.doc1) # EmptyStr
                    /\ SourcePath(arguments.doc2) # EmptyStr
                    /\ StartsWith(SourcePath(arguments.doc1),
                                  RSplitHead(SourcePath(arguments.doc2), "/")),
        label |-> "parent-child"],
       [matches |-> /\ TargetTopics # {} /\ CandidateTopics # {}
                    /\ 10 * Cardinality(TargetTopics \cap CandidateTopics)
                           > 6 * Cardinality(TargetTopics \cup CandidateTopics),
        label |-> "related-content"],
       [matches |-> /\ TargetTopics \cap {"implementation", "example", "tutorial"} # {}
                    /\ CandidateTopics \cap {"concept", "overview", "introduction"} # {},
        label |-> "implementation-detail"],
       [matches |-> arguments.relevance > 8, label |-> "highly-related"],
       [matches |-> arguments.relevance > 6, label |-> "related"],
       [matches |-> TRUE, label |-> "tangentially-related"] >>

\* C27: the label is that of the first rule, in the order path hierarchy,
\* topic overlap above 0.6, implementation against concept, relevance, that
\* matches; a later rule never overrides it.
C27_FirstMatchingRuleWins ==
    component = "_determine_relationship_type"
        => \E k \in DOMAIN RelationshipRules :
               /\ RelationshipRules[k].matches
               /\ \A j \in 1..(k - 1) : ~RelationshipRules[j].matches
               /\ returned = RelationshipRules[k].label

\* A call in which the path rule, the topic-overlap rule, the
\* implementation rule and the relevance rule all match returned "sibling".
C27_Witness ==
    /\ component = "_determine_relationship_type"
    /\ \A k \in {1, 3, 4, 5} : RelationshipRules[k].matches
    /\ returned = "sibling"


\* the directory that holds the file at a path: the path up to its last "/",
\* the top directory (the empty path) for a path without one
ParentDirectory(path) ==
    IF \A i \in DOMAIN path : path[i] # "/" THEN EmptyStr
    ELSE RSplitHead(path, "/")

\* directory dir is directory ancestor or lies below it
NestedUnder(dir, ancestor) ==
    \/ ancestor = EmptyStr
    \/ dir = ancestor
    \/ StartsWith(dir, ancestor \o <<"/">>)

TargetDirectory == ParentDirectory(SourcePath(arguments.doc1))
CandidateDirectory == ParentDirectory(SourcePath(arguments.doc2))

\* C28: "sibling" is returned only when the candidate's file lies in the
\* target's parent directory, "parent-child" only when the target lies in or
\* below the candidate's parent directory, and neither label is returned for
\* two documents whose directories are unrelated.
C28_PathLabelsFollowDirectories ==
    component = "_determine_relationship_type"
        => /\ returned = "sibling" => CandidateDirectory = TargetDirectory
           /\ returned = "parent-child"
                  => NestedUnder(TargetDirectory, CandidateDirectory)
           /\ (/\ ~NestedUnder(TargetDirectory, CandidateDirectory)
               /\ ~NestedUnder(CandidateDirectory, TargetDirectory))
                  => returned \notin {"sibling", "parent-child"}


\* ===================================================================
\* Recorded pairs of find_similar_documents (SpecSimilar)
\* ===================================================================
\* the positions of the documents of the list that carry a slug
PositionsOf(slug) == {i \in DOMAIN arguments : arguments[i].slug = slug}

\* C29: every entry of the list find_similar_documents returns for a
\* document names another document of the list, the cosine similarity of the
\* two is at least similarity_threshold, and the entry is labelled
\* "duplicate" exactly when that similarity is at least duplicate_threshold
\* and "similar" otherwise; no list holds an entry for its own document.
C29_RecordedPairsAboveThresholdAndLabelled ==
    component = "find_similar_documents" =>
        \A slug \in DOMAIN returned :
            \A k \in DOMAIN returned[slug] :
                /\ returned[slug][k].slug # slug
                /\ \E i \in PositionsOf(slug) :
                   \E j \in PositionsOf(returned[slug][k].slug) :
                       /\ i # j
                       /\ SimilarityGeq(PairSimilarity(i, j), DefaultSimilarityThreshold)
                       /\ returned[slug][k].relationship =
                              IF SimilarityGeq(PairSimilarity(i, j),
                                               DefaultDuplicateThreshold)
                              THEN "duplicate" ELSE "similar"

\* A call that returned, in one list, a pair labelled "duplicate" and a pair
\* labelled "similar".
C29_Witness ==
    /\ component = "find_similar_documents"
    /\ \E slug \in DOMAIN returned :
           /\ \E k \in DOMAIN returned[slug] :
                  returned[slug][k].relationship = "duplicate"
           /\ \E k \in DOMAIN returned[slug] :
                  returned[slug][k].relationship = "similar"


\* ===================================================================
\* The counters of the summary (SpecFaults)
\* ===================================================================
\* C30: in every summary analyze() returns for a non-empty collection there
\* is a number of per-document analysis errors with which processed + skipped
\* + analysis errors is the number of documents that passed the filter;
\* updated + the number of write-backs that raised is processed, so updated
\* <= processed; and errors is the analysis errors plus the write-back errors
\* plus at most one for the cross-document phase.
C30_SummaryCountersAddUp ==
    [][(AnalyzeStep /\ result'.kind = "summary")
           => /\ \E analysis_errors \in 0..Len(files_to_analyze') :
                     /\ result'.processed + result'.skipped + analysis_errors
                            = Len(files_to_analyze')
                     /\ result'.errors - analysis_errors - Cardinality(FailingWrites)
                            \in {0, 1}
              /\ result'.processed = Len(documents')
              /\ result'.updated + Cardinality(FailingWrites) = result'.processed
              /\ result'.updated <= result'.processed]_vars

\* A run over an unparseable file and a document whose write-back raised:
\* one skipped, one processed, none updated, one error.
C30_Witness ==
    /\ result.kind = "summary"
    /\ Len(files_to_analyze) = 2
    /\ result.skipped = 1
    /\ result.processed = 1
    /\ Len(documents) = 1
    /\ documents[1].path \in call.faults.write
    /\ result.updated = 0
    /\ result.errors = 1

====
